---- MODULE Spec2Model ----
(***************************************************************************)
(* telecheck-bot: result normalizer, bulk response reconciler and the     *)
(* bulk check of src/core.js.                                              *)
(*                                                                         *)
(* JavaScript values are tagged records [t, v]; a string is the sequence  *)
(* of its characters, an object the sequence of its [k, v] entries in     *)
(* insertion order.                                                        *)
(***************************************************************************)
EXTENDS Integers, Sequences, FiniteSets, TLC

VARIABLES
    nItem,      \* normalizeResult: the argument
    nResult,    \* normalizeResult: the value returned
    links,      \* checkBulk: the requested links
    pc,         \* checkBulk: position of the async function
    attempt,    \* checkBulk: index of the payloadAttempt in progress
    tryNo,      \* withRetry: attempt number of the bulk call in progress
    data,       \* checkBulk: body of the bulk response it returned on
    rows,       \* checkBulk: extractBulkRows of the bulk response handled last
    singlePc,   \* checkSingle: per link, position of the call
    singleTry,  \* checkSingle: per link, attempt number inside withRetry
    singleCalls,\* checkBulkFallback: per link, number of checkSingle calls
    settled,    \* checkBulkFallback: per link, the Promise.allSettled entry
    out,        \* checkBulk: the list the promise resolved with
    results,    \* buildBulkLines: the results argument
    options,    \* buildBulkLines: the options argument
    lines,      \* the lines built by buildBulkLines / given to chunkLines
    maxLen,     \* chunkLines: the maxLen argument
    chunks,     \* the chunks returned by chunkLines
    fpc,        \* position in the pipeline buildBulkLines -> chunkLines
    dLinks,     \* deduplicateLinks: the argument
    dUnique,    \* deduplicateLinks: the returned list
    userPrefs,  \* the Map userPrefs: per user id, the saved preference
    pending,    \* bot.on("text"): per user, a bulk check is awaited
    update,     \* the update handled last
    reply,      \* the kind of the reply sent last
    eText,      \* extractUrls: the argument
    eUrls,      \* extractUrls: the returned list
    wPc,        \* withRetry: position of the async function
    wAttempt,   \* withRetry: the loop variable attempt
    wCalls,     \* withRetry: number of invocations of the action
    wErrs,      \* withRetry: the errors caught, oldest first
    wSlept,     \* withRetry: the delays slept, oldest first
    wResult,    \* withRetry: the value returned or the error thrown
    ALLOWED_CHAT_IDS,   \* bot: the chats allowed by the environment ({}: all)
    AUTH_PASSWORD,      \* bot: the password set by the environment ("": none)
    authenticatedUsers, \* bot: the Set of authenticated user ids
    rateLimiter,        \* bot: the Map from user to accepted timestamps
    now,                \* bot: Date.now()
    msg,                \* bot: the last message handled
    replies,            \* bot: the replies its handler sent, in order
    calls,              \* bot: the upstream calls its handler made, in order
    accepted,           \* bot: per user, the times of all requests the limiter accepted
    authOk,             \* bot: per user, how many "Authentication successful." were sent
    bulkLast,           \* checkBulk: how the last bulk POST ended
    sLines,             \* replyInChunks: the lines of the report
    sChunks,            \* replyInChunks: the chunks to send
    sends,              \* replyInChunks: the replies started, oldest first
    authStore,          \* the user_ids of the file at authStorePath
    prefsStore,         \* the users of the file at userPrefsStorePath
    writers,            \* the persist calls that have not settled
    storeErr            \* a mkdir or writeFile of a persist call failed

normVars == <<nItem, nResult>>
bulkVars == <<links, pc, attempt, tryNo, data, rows, singlePc, singleTry,
              singleCalls, settled, out>>
fmtVars == <<results, options, lines, maxLen, chunks, fpc>>
dedupVars == <<dLinks, dUnique>>
botVars == <<userPrefs, pending, update, reply>>
urlVars == <<eText, eUrls>>
retryVars == <<wPc, wAttempt, wCalls, wErrs, wSlept, wResult>>
guardVars == <<ALLOWED_CHAT_IDS, AUTH_PASSWORD, authenticatedUsers, rateLimiter,
               now, msg, replies, calls, accepted, authOk>>
sendVars == <<sLines, sChunks, sends>>
storeVars == <<authStore, prefsStore, writers, storeErr>>
extraVars == <<urlVars, retryVars, guardVars, bulkLast, sendVars, storeVars>>
restVars == <<fmtVars, dedupVars, botVars, extraVars>>
oldVars == <<normVars, bulkVars, fmtVars, dedupVars, botVars>>
urlOthers == <<oldVars, retryVars, guardVars, bulkLast, sendVars, storeVars>>
retryOthers == <<oldVars, urlVars, guardVars, bulkLast, sendVars, storeVars>>
guardOthers == <<normVars, bulkVars, fmtVars, dedupVars, pending, update, reply,
                 urlVars, retryVars, bulkLast, sendVars, storeVars>>
bulkOthers == <<fmtVars, dedupVars, botVars, urlVars, retryVars, guardVars, sendVars,
                storeVars>>
sendOthers == <<oldVars, urlVars, retryVars, guardVars, bulkLast, storeVars>>
storeOthers == <<normVars, bulkVars, fmtVars, dedupVars, pending, update, reply,
                 urlVars, retryVars, ALLOWED_CHAT_IDS, AUTH_PASSWORD, rateLimiter,
                 now, msg, replies, calls, accepted, authOk, bulkLast, sendVars>>
vars == <<nItem, nResult, links, pc, attempt, tryNo, data, rows, singlePc,
          singleTry, singleCalls, settled, out, results, options, lines,
          maxLen, chunks, fpc, dLinks, dUnique, userPrefs, pending, update,
          reply, eText, eUrls, wPc, wAttempt, wCalls, wErrs, wSlept, wResult,
          ALLOWED_CHAT_IDS, AUTH_PASSWORD, authenticatedUsers, rateLimiter,
          now, msg, replies, calls, accepted, authOk, bulkLast,
          sLines, sChunks, sends, authStore, prefsStore, writers, storeErr>>

----------------------------------------------------------------------------
(* JavaScript values *)

Undefined == [t |-> "undefined", v |-> <<>>]
Null      == [t |-> "null", v |-> <<>>]
Bool(b)   == [t |-> "boolean", v |-> b]
Num(n)    == [t |-> "number", v |-> n]
Str(s)    == [t |-> "string", v |-> s]
Arr(a)    == [t |-> "array", v |-> a]
Obj(o)    == [t |-> "object", v |-> o]
Entry(key, val) == [k |-> key, v |-> val]

IsArray(x) == x.t = "array"

\* typeof x === "object"
TypeofObject(x) == x.t \in {"object", "array", "null"}

\* the value is truthy (numbers are naturals: no NaN)
Truthy(x) ==
    CASE x.t = "undefined" -> FALSE
      [] x.t = "null"      -> FALSE
      [] x.t = "boolean"   -> x.v
      [] x.t = "number"    -> x.v # 0
      [] x.t = "string"    -> x.v # <<>>
      [] OTHER             -> TRUE

Digits == <<"0", "1", "2", "3", "4", "5", "6", "7", "8", "9">>

RECURSIVE NumToStr(_)
NumToStr(n) ==
    IF n < 10 THEN <<Digits[n + 1]>>
    ELSE NumToStr(n \div 10) \o <<Digits[(n % 10) + 1]>>

\* String(x)
RECURSIVE String(_)
RECURSIVE JoinFrom(_, _)
JoinFrom(a, i) ==
    IF i > Len(a) THEN <<>>
    ELSE (IF i > 1 THEN <<",">> ELSE <<>>)
         \o (IF a[i].t \in {"undefined", "null"} THEN <<>> ELSE String(a[i]))
         \o JoinFrom(a, i + 1)
String(x) ==
    CASE x.t = "undefined" -> <<"u","n","d","e","f","i","n","e","d">>
      [] x.t = "null"      -> <<"n","u","l","l">>
      [] x.t = "boolean"   -> IF x.v THEN <<"t","r","u","e">>
                              ELSE <<"f","a","l","s","e">>
      [] x.t = "number"    -> NumToStr(x.v)
      [] x.t = "string"    -> x.v
      [] x.t = "array"     -> JoinFrom(x.v, 1)
      [] OTHER             -> <<"[","o","b","j","e","c","t"," ","O","b","j","e","c","t","]">>

Upper == <<"A","B","C","D","E","F","G","H","I","J","K","L","M",
           "N","O","P","Q","R","S","T","U","V","W","X","Y","Z">>
Lower == <<"a","b","c","d","e","f","g","h","i","j","k","l","m",
           "n","o","p","q","r","s","t","u","v","w","x","y","z">>

LowerChar(c) ==
    IF \E i \in 1..26 : Upper[i] = c
    THEN Lower[CHOOSE i \in 1..26 : Upper[i] = c]
    ELSE c

\* s.toLowerCase()
ToLowerCase(s) == [i \in 1..Len(s) |-> LowerChar(s[i])]

\* obj[key] of an object's entries
RECURSIVE GetFrom(_, _, _)
GetFrom(o, key, i) ==
    IF i > Len(o) THEN Undefined
    ELSE IF o[i].k = key THEN o[i].v
    ELSE GetFrom(o, key, i + 1)

\* x[key] for the keys used by the program (none of them is an index or a
\* property of Array.prototype / String.prototype)
Get(x, key) == IF x.t = "object" THEN GetFrom(x.v, key, 1) ELSE Undefined

HasKey(o, key) == \E i \in 1..Len(o) : o[i].k = key

\* assignment of one property: an existing key keeps its position
Put(o, key, val) ==
    IF HasKey(o, key)
    THEN [i \in 1..Len(o) |-> IF o[i].k = key THEN Entry(key, val) ELSE o[i]]
    ELSE Append(o, Entry(key, val))

\* own enumerable properties copied by {...x}
SpreadEntries(x) ==
    CASE x.t = "object" -> x.v
      [] x.t = "array"  -> [i \in 1..Len(x.v) |-> Entry(NumToStr(i - 1), x.v[i])]
      [] x.t = "string" -> [i \in 1..Len(x.v) |-> Entry(NumToStr(i - 1), Str(<<x.v[i]>>))]
      [] OTHER          -> <<>>

\* { ...base, ...more } on entries
RECURSIVE Merge(_, _, _)
Merge(base, more, i) ==
    IF i > Len(more) THEN base
    ELSE Merge(Put(base, more[i].k, more[i].v), more, i + 1)

----------------------------------------------------------------------------
(* Property names and fixed strings *)

kLink     == <<"l","i","n","k">>
kUrl      == <<"u","r","l">>
kInput    == <<"i","n","p","u","t">>
kUsername == <<"u","s","e","r","n","a","m","e">>
kValue    == <<"v","a","l","u","e">>
kStatus   == <<"s","t","a","t","u","s">>
kResult   == <<"r","e","s","u","l","t">>
kState    == <<"s","t","a","t","e">>
kValidity == <<"v","a","l","i","d","i","t","y">>
kType     == <<"t","y","p","e">>
kReason   == <<"r","e","a","s","o","n">>
kError    == <<"e","r","r","o","r">>
kMessage  == <<"m","e","s","s","a","g","e">>
kDetails  == <<"d","e","t","a","i","l","s">>
kResults  == <<"r","e","s","u","l","t","s">>
kData     == <<"d","a","t","a">>
kItems    == <<"i","t","e","m","s">>

sValid    == <<"v","a","l","i","d">>
sInvalid  == <<"i","n","v","a","l","i","d">>
sUnknown  == <<"u","n","k","n","o","w","n">>

LinkKeys   == <<kLink, kUrl, kInput, kUsername, kValue>>
StatusKeys == <<kStatus, kResult, kState, kValidity, kType>>
ReasonKeys == <<kReason, kError, kMessage, kDetails>>

ValidWords   == {sValid, <<"o","k">>, <<"a","l","i","v","e">>,
                 <<"a","c","t","i","v","e">>, <<"t","r","u","e">>}
InvalidWords == {sInvalid, <<"b","a","d">>, <<"d","e","a","d">>,
                 <<"f","a","l","s","e">>}

UnknownLink == <<"(","u","n","k","n","o","w","n"," ","l","i","n","k",")">>
MissingReason == <<"M","i","s","s","i","n","g"," ","i","n"," ","b","u","l","k"," ",
                   "r","e","s","p","o","n","s","e">>
CheckFailed == <<"C","h","e","c","k"," ","f","a","i","l","e","d">>

----------------------------------------------------------------------------
(* Result normalizer *)

RECURSIVE PickFrom(_, _, _)
PickFrom(obj, keys, i) ==
    IF i > Len(keys) THEN Undefined
    ELSE LET val == Get(obj, keys[i]) IN
         IF val # Undefined /\ val # Null /\ val # Str(<<>>) THEN val
         ELSE PickFrom(obj, keys, i + 1)

pick(obj, keys) ==
    IF ~Truthy(obj) \/ ~TypeofObject(obj) THEN Undefined
    ELSE PickFrom(obj, keys, 1)

\* variant: an unrecognized status is passed through
normalizeStatus_passThrough(value) ==
    IF ~Truthy(value) THEN sUnknown
    ELSE LET s == ToLowerCase(String(value)) IN
         IF s \in ValidWords THEN sValid
         ELSE IF s \in InvalidWords THEN sInvalid
         ELSE s

\* variant: the vocabulary is matched without lower-casing
normalizeStatus_caseSensitive(value) ==
    IF ~Truthy(value) THEN sUnknown
    ELSE LET s == String(value) IN
         IF s \in ValidWords THEN sValid
         ELSE IF s \in InvalidWords THEN sInvalid
         ELSE sUnknown

normalizeStatus(value) ==
    IF ~Truthy(value) THEN sUnknown
    ELSE LET s == ToLowerCase(String(value)) IN
         IF s \in ValidWords THEN sValid
         ELSE IF s \in InvalidWords THEN sInvalid
         ELSE sUnknown

\* variant: no placeholder for a missing link
normalizeResult_noPlaceholder(item) ==
    LET link      == pick(item, LinkKeys)
        statusRaw == pick(item, StatusKeys)
        reason    == pick(item, ReasonKeys)
    IN  [link   |-> String(link),
         status |-> normalizeStatus(statusRaw),
         reason |-> IF Truthy(reason) THEN Str(String(reason)) ELSE Null]

normalizeResult(item) ==
    LET picked    == pick(item, LinkKeys)
        link      == IF Truthy(picked) THEN picked ELSE Str(UnknownLink)
        statusRaw == pick(item, StatusKeys)
        reason    == pick(item, ReasonKeys)
    IN  [link   |-> String(link),
         status |-> normalizeStatus(statusRaw),
         reason |-> IF Truthy(reason) THEN Str(String(reason)) ELSE Null]

----------------------------------------------------------------------------
(* Inputs of the normalizer *)

MaxNum == 2

sA      == <<"a">>
sWhy    == <<"w","h","y">>
sFoo    == <<"f","o","o">>

UpperChar(c) ==
    IF \E i \in 1..26 : Lower[i] = c
    THEN Upper[CHOOSE i \in 1..26 : Lower[i] = c]
    ELSE c

\* every spelling of w in upper and lower case letters
CaseVariants(w) ==
    { [i \in 1..Len(w) |-> IF i \in S THEN UpperChar(w[i]) ELSE w[i]] :
        S \in SUBSET (1..Len(w)) }

ValidSpellings   == UNION { CaseVariants(w) : w \in ValidWords }
InvalidSpellings == UNION { CaseVariants(w) : w \in InvalidWords }

OtherStrings ==
    { <<>>, <<"0">>, <<"1">>, <<"y","e","s">>, sUnknown, sFoo,
      <<"v","a","l","i","d","d">>, <<" ","o","k">>, <<"o","k","a","y">>,
      <<"I","N","V","A","L","I","D","!">>, <<"d","e","a","d","-","l","i","n","k">> }

NonStrings ==
    { Undefined, Null, Bool(TRUE), Bool(FALSE), Arr(<<>>),
      Arr(<<Str(<<"o","k">>)>>), Obj(<<>>) }
    \cup { Num(n) : n \in 0..MaxNum }

StatusValues ==
    { Str(s) : s \in ValidSpellings \cup InvalidSpellings \cup OtherStrings }
    \cup NonStrings

LinkValues ==
    { Str(sA), Str(<<"a","/">>), Str(<<>>), Null, Arr(<<Str(<<>>)>>) }
    \cup { Num(n) : n \in 0..MaxNum }

ReasonValues == { Str(sWhy), Str(<<>>), Null, Bool(FALSE), Num(0), Num(1) }

KeySet(keys) == { keys[i] : i \in 1..Len(keys) }

\* objects of at most two properties with keys of keys and values of vals
Props(keys, vals) ==
    { <<>> }
    \cup { <<Entry(k1, v1)>> : k1 \in keys, v1 \in vals }
    \cup { <<Entry(kv[1], kv[2]), Entry(kv[3], kv[4])>> :
              kv \in { q \in keys \X vals \X keys \X vals : q[1] # q[3] } }

StatusOnlyItems ==
    { Obj(<<Entry(key, val)>>) : key \in KeySet(StatusKeys), val \in StatusValues }

FewStatusProps ==
    { <<>>, <<Entry(kStatus, Str(<<"O","K">>))>>, <<Entry(kState, Bool(FALSE))>>,
      <<Entry(kStatus, Null), Entry(kType, Str(<<"D","e","a","d">>))>>,
      <<Entry(sFoo, Str(sValid))>> }

LinkItems ==
    { Obj(l \o s \o r) :
        l \in Props(KeySet(LinkKeys), LinkValues),
        s \in FewStatusProps,
        r \in { <<>>, <<Entry(kReason, Str(sWhy))>> } }

ReasonItems ==
    { Obj(s \o r) :
        s \in FewStatusProps,
        r \in Props(KeySet(ReasonKeys), ReasonValues) }

NonRecordItems ==
    { Undefined, Null, Bool(TRUE), Bool(FALSE), Str(<<>>), Str(sA), Str(sValid),
      Arr(<<>>), Arr(<<Str(sA)>>) }
    \cup { Num(n) : n \in 0..MaxNum }

Items == StatusOnlyItems \cup LinkItems \cup ReasonItems \cup NonRecordItems

----------------------------------------------------------------------------
(* Bulk response reconciler *)

\* variant: the elements of a bucket are taken last to first
BucketRows_reversed(list, status) ==
    IF IsArray(list)
    THEN [i \in 1..Len(list.v) |->
            Obj(<<Entry(kLink, list.v[Len(list.v) + 1 - i]),
                  Entry(kStatus, Str(status))>>)]
    ELSE <<>>

\* rows.push({ link, status }) for every element of a bucket
BucketRows(list, status) ==
    IF IsArray(list)
    THEN [i \in 1..Len(list.v) |->
            Obj(<<Entry(kLink, list.v[i]), Entry(kStatus, Str(status))>>)]
    ELSE <<>>

Includes(seq, x) == \E i \in 1..Len(seq) : seq[i] = x

\* the loop over Object.keys(data)
RECURSIVE ByLinkRows(_, _, _)
ByLinkRows(o, requestedLinks, i) ==
    IF i > Len(o) THEN <<>>
    ELSE LET key   == o[i].k
             value == o[i].v
             row   == IF ~Includes(requestedLinks, key) THEN <<>>
                      ELSE IF value.t = "string"
                           THEN <<Obj(<<Entry(kLink, Str(key)), Entry(kStatus, value)>>)>>
                      ELSE IF Truthy(value) /\ TypeofObject(value)
                           THEN <<Obj(Merge(<<Entry(kLink, Str(key))>>,
                                            SpreadEntries(value), 1))>>
                      ELSE <<>>
         IN  row \o ByLinkRows(o, requestedLinks, i + 1)

\* variant: "data" is probed before "results"
extractBulkRows_dataFirst(d, requestedLinks) ==
    IF IsArray(d) THEN d
    ELSE IF IsArray(Get(d, kData)) THEN Get(d, kData)
    ELSE IF IsArray(Get(d, kResults)) THEN Get(d, kResults)
    ELSE IF IsArray(Get(d, kItems)) THEN Get(d, kItems)
    ELSE LET bucketRows  == BucketRows(Get(d, sValid), sValid)
                              \o BucketRows(Get(d, sInvalid), sInvalid)
                              \o BucketRows(Get(d, sUnknown), sUnknown)
             byLinkRows  == IF d.t = "object"
                            THEN ByLinkRows(d.v, requestedLinks, 1)
                            ELSE <<>>
         IN  IF Len(bucketRows) > 0 THEN Arr(bucketRows)
             ELSE IF Len(byLinkRows) > 0 THEN Arr(byLinkRows)
             ELSE Null

extractBulkRows(d, requestedLinks) ==
    IF IsArray(d) THEN d
    ELSE IF IsArray(Get(d, kResults)) THEN Get(d, kResults)
    ELSE IF IsArray(Get(d, kData)) THEN Get(d, kData)
    ELSE IF IsArray(Get(d, kItems)) THEN Get(d, kItems)
    ELSE LET validList   == Get(d, sValid)
             invalidList == Get(d, sInvalid)
             unknownList == Get(d, sUnknown)
             bucketRows  == BucketRows(validList, sValid)
                              \o BucketRows(invalidList, sInvalid)
                              \o BucketRows(unknownList, sUnknown)
             byLinkRows  == IF d.t = "object"
                            THEN ByLinkRows(d.v, requestedLinks, 1)
                            ELSE <<>>
         IN  IF (IsArray(validList) \/ IsArray(invalidList) \/ IsArray(unknownList))
                  /\ Len(bucketRows) > 0
             THEN Arr(bucketRows)
             ELSE IF Len(byLinkRows) > 0 THEN Arr(byLinkRows)
             ELSE Null

\* rows.map(normalizeResult)
Normalized(rs) == [i \in 1..Len(rs) |-> normalizeResult(rs[i])]

\* new Map(normalized.map((r) => [r.link, r])).get(link): the last row wins
ByLinkGet(normalized, link) ==
    LET hits == { i \in 1..Len(normalized) : normalized[i].link = link } IN
    IF hits = {} THEN <<>>
    ELSE <<normalized[CHOOSE i \in hits : \A j \in hits : j <= i]>>

MissingResult(link) ==
    normalizeResult(Obj(<<Entry(kLink, Str(link)), Entry(kStatus, Str(sUnknown)),
                          Entry(kReason, Str(MissingReason))>>))

StripSlash(link) ==
    IF Len(link) > 0 /\ link[Len(link)] = "/" THEN SubSeq(link, 1, Len(link) - 1)
    ELSE link

\* variant: links are compared without their trailing slash
Rekey_ignoreSlash(normalized, requestedLinks) ==
    [i \in 1..Len(requestedLinks) |->
        LET hits == { j \in 1..Len(normalized) :
                        StripSlash(normalized[j].link) = StripSlash(requestedLinks[i]) }
        IN  IF hits # {}
            THEN normalized[CHOOSE j \in hits : \A h \in hits : h <= j]
            ELSE MissingResult(requestedLinks[i])]

\* links.map((link) => byLink.get(link) || normalizeResult({...}))
Rekey(normalized, requestedLinks) ==
    [i \in 1..Len(requestedLinks) |->
        LET hit == ByLinkGet(normalized, requestedLinks[i]) IN
        IF hit # <<>> THEN hit[1] ELSE MissingResult(requestedLinks[i])]

\* checkBulk returns from the iteration that extracted the rows rs
BulkReturns(rs, requestedLinks) ==
    /\ Truthy(rs)
    /\ \/ Len(rs.v) = Len(requestedLinks)
       \/ Len(rs.v) > 0

\* variant: the normalized rows are returned whatever their number
BulkResult_asIs(rs, requestedLinks) == Normalized(rs.v)

\* the list it returns then
BulkResult(rs, requestedLinks) ==
    LET normalized == Normalized(rs.v) IN
    IF Len(normalized) = Len(requestedLinks) THEN normalized
    ELSE Rekey(normalized, requestedLinks)

----------------------------------------------------------------------------
(* Link de-duplication *)

\* variant: links are compared without regard to letter case
RECURSIVE DedupFrom_ignoreCase(_, _, _, _)
DedupFrom_ignoreCase(ls, i, seen, unique) ==
    IF i > Len(ls) THEN unique
    ELSE IF ToLowerCase(ls[i]) \in seen
         THEN DedupFrom_ignoreCase(ls, i + 1, seen, unique)
    ELSE DedupFrom_ignoreCase(ls, i + 1, seen \cup {ToLowerCase(ls[i])},
                              Append(unique, ls[i]))

deduplicateLinks_ignoreCase(ls) == DedupFrom_ignoreCase(ls, 1, {}, <<>>)

\* the loop over links with the Set seen and the list unique
RECURSIVE DedupFrom(_, _, _, _)
DedupFrom(ls, i, seen, unique) ==
    IF i > Len(ls) THEN unique
    ELSE IF ls[i] \in seen THEN DedupFrom(ls, i + 1, seen, unique)
    ELSE DedupFrom(ls, i + 1, seen \cup {ls[i]}, Append(unique, ls[i]))

deduplicateLinks(ls) == DedupFrom(ls, 1, {}, <<>>)

----------------------------------------------------------------------------
(* Report formatter *)

kShowInvalid == <<"s","h","o","w","I","n","v","a","l","i","d">>
sTotal       == <<"D","o","n","e","."," ","T","o","t","a","l",":"," ">>
sValidCount  == <<"V","a","l","i","d",":"," ">>
sInvalidCount == <<"I","n","v","a","l","i","d",":"," ">>
sUnknownCount == <<"U","n","k","n","o","w","n",":"," ">>
sHidden      == <<" ","(","h","i","d","d","e","n",")">>
IconValid    == <<"[","V","]">>
IconInvalid  == <<"[","X","]">>
IconUnknown  == <<"[","?","]">>

\* rank[status] ?? 99
Rank(status) ==
    CASE status = sValid   -> 0
      [] status = sInvalid -> 1
      [] status = sUnknown -> 2
      [] OTHER             -> 99

\* variant: a result is placed before the results of equal rank
InsertByRank_unstable(sorted, r) ==
    LET k == Cardinality({ i \in 1..Len(sorted) :
                             Rank(sorted[i].status) < Rank(r.status) })
    IN  SubSeq(sorted, 1, k) \o <<r>> \o SubSeq(sorted, k + 1, Len(sorted))

RECURSIVE SortFrom_unstable(_, _, _)
SortFrom_unstable(rs, i, sorted) ==
    IF i > Len(rs) THEN sorted
    ELSE SortFrom_unstable(rs, i + 1, InsertByRank_unstable(sorted, rs[i]))

orderResults_unstable(rs) == SortFrom_unstable(rs, 1, <<>>)

\* Array.prototype.sort is stable: r goes behind the results whose rank is
\* not greater than its own
InsertByRank(sorted, r) ==
    LET k == Cardinality({ i \in 1..Len(sorted) :
                             Rank(sorted[i].status) <= Rank(r.status) })
    IN  SubSeq(sorted, 1, k) \o <<r>> \o SubSeq(sorted, k + 1, Len(sorted))

RECURSIVE SortFrom(_, _, _)
SortFrom(rs, i, sorted) ==
    IF i > Len(rs) THEN sorted
    ELSE SortFrom(rs, i + 1, InsertByRank(sorted, rs[i]))

\* [...results].sort((a, b) => rank(a) - rank(b))
orderResults(rs) == SortFrom(rs, 1, <<>>)

\* results.filter((r) => r.status === status).length
CountStatus(rs, status) ==
    Len(SelectSeq(rs, LAMBDA r : r.status = status))

Icon(status) ==
    IF status = sValid THEN IconValid
    ELSE IF status = sInvalid THEN IconInvalid
    ELSE IconUnknown

\* `${icon} ${r.link}`
BodyLine(r) == Icon(r.status) \o <<" ">> \o r.link

\* options.showInvalid !== false, with options = {} by default
ShowInvalid(opts) ==
    Get(IF opts = Undefined THEN Obj(<<>>) ELSE opts, kShowInvalid) # Bool(FALSE)

\* variant: the summary counts the displayed results only
buildBulkLines_countShown(rs, opts) ==
    LET showInvalid == ShowInvalid(opts)
        ordered == SelectSeq(orderResults(rs),
                             LAMBDA r : showInvalid \/ r.status # sInvalid)
        invalidSummary ==
            sInvalidCount \o NumToStr(CountStatus(ordered, sInvalid))
              \o (IF showInvalid THEN <<>> ELSE sHidden)
    IN  << sTotal \o NumToStr(Len(rs)),
           sValidCount \o NumToStr(CountStatus(ordered, sValid)),
           invalidSummary,
           sUnknownCount \o NumToStr(CountStatus(ordered, sUnknown)),
           <<>> >>
        \o [i \in 1..Len(ordered) |-> BodyLine(ordered[i])]

buildBulkLines(rs, opts) ==
    LET showInvalid == ShowInvalid(opts)
        ordered == SelectSeq(orderResults(rs),
                             LAMBDA r : showInvalid \/ r.status # sInvalid)
        invalidSummary ==
            sInvalidCount \o NumToStr(CountStatus(rs, sInvalid))
              \o (IF showInvalid THEN <<>> ELSE sHidden)
    IN  << sTotal \o NumToStr(Len(rs)),
           sValidCount \o NumToStr(CountStatus(rs, sValid)),
           invalidSummary,
           sUnknownCount \o NumToStr(CountStatus(rs, sUnknown)),
           <<>> >>
        \o [i \in 1..Len(ordered) |-> BodyLine(ordered[i])]

----------------------------------------------------------------------------
(* Chunking of the reply *)

NL == "\n"

REPLY_CHUNK_MAX_LEN == 3500

\* variant: the chunk is closed as soon as the limit is reached
RECURSIVE ChunkFrom_eager(_, _, _, _, _)
ChunkFrom_eager(ls, max, i, current, acc) ==
    IF i > Len(ls)
    THEN IF current # <<>> THEN Append(acc, current) ELSE acc
    ELSE LET line == ls[i]
             next == IF current # <<>> THEN current \o <<NL>> \o line ELSE line
         IN  IF Len(next) >= max /\ current # <<>>
             THEN ChunkFrom_eager(ls, max, i + 1, line, Append(acc, current))
             ELSE ChunkFrom_eager(ls, max, i + 1, next, acc)

chunkLines_eager(ls, max) == ChunkFrom_eager(ls, max, 1, <<>>, <<>>)

\* the loop over lines with the string current and the list chunks; an
\* empty current is falsy
RECURSIVE ChunkFrom(_, _, _, _, _)
ChunkFrom(ls, max, i, current, acc) ==
    IF i > Len(ls)
    THEN IF current # <<>> THEN Append(acc, current) ELSE acc
    ELSE LET line == ls[i]
             next == IF current # <<>> THEN current \o <<NL>> \o line ELSE line
         IN  IF Len(next) > max /\ current # <<>>
             THEN ChunkFrom(ls, max, i + 1, line, Append(acc, current))
             ELSE ChunkFrom(ls, max, i + 1, next, acc)

\* variant: the default limit is used whatever the caller passes
chunkLines_defaultLen(ls, max) == ChunkFrom(ls, REPLY_CHUNK_MAX_LEN, 1, <<>>, <<>>)

chunkLines(ls, max) == ChunkFrom(ls, max, 1, <<>>, <<>>)

----------------------------------------------------------------------------
(* User preferences *)

kShowInvalidBulk == <<"s","h","o","w","I","n","v","a","l","i","d","B","u","l","k">>

OnWords  == { <<"o","n">>, <<"s","h","o","w">>, <<"t","r","u","e">>, <<"y","e","s">>, <<"1">> }
OffWords == { <<"o","f","f">>, <<"h","i","d","e">>, <<"f","a","l","s","e">>, <<"n","o">>, <<"0">> }

Pref(b) == Obj(<<Entry(kShowInvalidBulk, Bool(b))>>)

\* variant: invalid links are shown only to a user who asked for them
getUserPref_defaultHide(prefs, userId) ==
    [showInvalidBulk |-> Get(prefs[userId], kShowInvalidBulk) = Bool(TRUE)]

\* saved?.showInvalidBulk !== false
getUserPref(prefs, userId) ==
    [showInvalidBulk |-> Get(prefs[userId], kShowInvalidBulk) # Bool(FALSE)]

\* userPrefs.set(id, { showInvalidBulk: Boolean(showInvalidBulk) })
setShowInvalidBulk(prefs, userId, showInvalidBulk) ==
    [prefs EXCEPT ![userId] = Pref(showInvalidBulk)]

\* s.trim() for strings whose only white space is the blank
RECURSIVE Trim(_)
Trim(str) ==
    IF str = <<>> THEN str
    ELSE IF Head(str) = " " THEN Trim(Tail(str))
    ELSE IF str[Len(str)] = " " THEN Trim(SubSeq(str, 1, Len(str) - 1))
    ELSE str

----------------------------------------------------------------------------
(* Link extraction: URL_REGEX = /(https?:\/\/[^\s,]+|t\.me\/[^\s,]+)/g *)

pHttp  == <<"h","t","t","p",":","/","/">>
pHttps == <<"h","t","t","p","s",":","/","/">>
pTme   == <<"t",".","m","e","/">>

\* \s
IsSpace(c) == c \in {" ", "\n", "\t", "\r"}

\* [^\s,]
IsLinkChar(c) == ~IsSpace(c) /\ c # ","

StartsWith(str, i, prefix) ==
    /\ i + Len(prefix) - 1 <= Len(str)
    /\ SubSeq(str, i, i + Len(prefix) - 1) = prefix

\* index of the last character of the run of [^\s,] that starts at j
\* (j - 1 if there is none)
RECURSIVE RunEnd(_, _)
RunEnd(str, j) ==
    IF j <= Len(str) /\ IsLinkChar(str[j]) THEN RunEnd(str, j + 1) ELSE j - 1

\* prefix[^\s,]+ at i: index of the last character matched, 0 if no match
MatchEnd(str, i, prefix) ==
    IF StartsWith(str, i, prefix) /\ RunEnd(str, i + Len(prefix)) >= i + Len(prefix)
    THEN RunEnd(str, i + Len(prefix))
    ELSE 0

\* the alternation at i: https?:// is tried before t.me/
MatchAt(str, i) ==
    IF MatchEnd(str, i, pHttps) > 0 THEN MatchEnd(str, i, pHttps)
    ELSE IF MatchEnd(str, i, pHttp) > 0 THEN MatchEnd(str, i, pHttp)
    ELSE MatchEnd(str, i, pTme)

\* variant: the search resumes one character after the start of a match
RECURSIVE MatchFrom_overlapping(_, _)
MatchFrom_overlapping(str, i) ==
    IF i > Len(str) THEN <<>>
    ELSE IF MatchAt(str, i) > 0
         THEN <<SubSeq(str, i, MatchAt(str, i))>> \o MatchFrom_overlapping(str, i + 1)
    ELSE MatchFrom_overlapping(str, i + 1)

extractUrls_overlapping(text) ==
    LET found == MatchFrom_overlapping(text, 1)
    IN  [k \in 1..Len(found) |-> Trim(found[k])]

\* str.match(regex) with the g flag: the search resumes after each match
RECURSIVE MatchFrom(_, _)
MatchFrom(str, i) ==
    IF i > Len(str) THEN <<>>
    ELSE IF MatchAt(str, i) > 0
         THEN <<SubSeq(str, i, MatchAt(str, i))>> \o MatchFrom(str, MatchAt(str, i) + 1)
    ELSE MatchFrom(str, i + 1)

\* (text.match(URL_REGEX) || []).map((v) => v.trim())
extractUrls(text) ==
    LET found == MatchFrom(text, 1)
    IN  [k \in 1..Len(found) |-> Trim(found[k])]

----------------------------------------------------------------------------
(* Guard of the bot: allowed chats, password, rate limit, message size *)

\* limits set by the environment, scaled down
RATE_LIMIT_COUNT == 2
RATE_LIMIT_WINDOW_MS == 1
MAX_MESSAGE_CHARS == 22
MAX_LINKS_PER_BULK == 2

wStart   == <<"s","t","a","r","t">>
wHelp    == <<"h","e","l","p">>
wAuth    == <<"a","u","t","h">>
wInvalid == <<"i","n","v","a","l","i","d">>
wStats   == <<"s","t","a","t","s">>
wCheck   == <<"c","h","e","c","k">>
wBulk    == <<"b","u","l","k">>

\* \w
IsWordChar(c) ==
    \/ \E i \in 1..26 : Lower[i] = c \/ Upper[i] = c
    \/ c \in {"0","1","2","3","4","5","6","7","8","9","_"}

\* index of the last character of the run of \w that starts at j (j - 1 if
\* there is none)
RECURSIVE WordEnd(_, _)
WordEnd(str, j) ==
    IF j <= Len(str) /\ IsWordChar(str[j]) THEN WordEnd(str, j + 1) ELSE j - 1

\* (@\w+)? at index p: the index that follows it
AfterMention(str, p) ==
    IF p <= Len(str) /\ str[p] = "@" /\ WordEnd(str, p + 1) >= p + 1
    THEN WordEnd(str, p + 1) + 1
    ELSE p

\* index of the first character at or after p that is not white space
RECURSIVE SkipSpace(_, _)
SkipSpace(str, p) ==
    IF p <= Len(str) /\ IsSpace(str[p]) THEN SkipSpace(str, p + 1) ELSE p

\* /^\/word(@\w+)?/i at the start of the text
HasCommand(text, word) ==
    /\ Len(text) > Len(word)
    /\ ToLowerCase(SubSeq(text, 1, Len(word) + 1)) = <<"/">> \o word

\* /^\/(start|help|auth)(@\w+)?(\s|$)/i.test(text)
isAuthExemptMessage(text) ==
    \E word \in {wStart, wHelp, wAuth} :
        /\ HasCommand(text, word)
        /\ LET p == AfterMention(text, Len(word) + 2)
           IN  p > Len(text) \/ IsSpace(text[p])

\* text.replace(/^\/word(@\w+)?\s*/i, "").trim()
StripCommand(text, word) ==
    IF HasCommand(text, word)
    THEN LET p == SkipSpace(text, AfterMention(text, Len(word) + 2))
         IN  Trim(SubSeq(text, p, Len(text)))
    ELSE Trim(text)

\* the command a text message is dispatched on: the word between the
\* leading slash and the first white space or @ ("" for a plain text)
RECURSIVE CommandEnd(_, _)
CommandEnd(text, j) ==
    IF j <= Len(text) /\ ~IsSpace(text[j]) /\ text[j] # "@"
    THEN CommandEnd(text, j + 1) ELSE j - 1

CommandOf(text) ==
    IF text # <<>> /\ Head(text) = "/"
    THEN SubSeq(text, 2, CommandEnd(text, 2))
    ELSE <<>>

isAllowedChat(allowed, chatId) == allowed = {} \/ chatId \in allowed

hasPasswordAuth(password) == password # <<>>

\* variant: the Set of authenticated users is not consulted
isAuthenticated_anyone(password, authenticated, userId) == TRUE

isAuthenticated(password, authenticated, userId) ==
    ~hasPasswordAuth(password) \/ userId \in authenticated

\* arr.filter((t) => t >= windowStart)
InWindow(arr, t) == SelectSeq(arr, LAMBDA x : x >= t - RATE_LIMIT_WINDOW_MS)

\* variant: the request that finds RATE_LIMIT_COUNT entries is still accepted
consumeRateLimit_offByOne(arr, t) ==
    LET inWindow == InWindow(arr, t) IN
    IF Len(inWindow) > RATE_LIMIT_COUNT
    THEN [ok |-> FALSE, arr |-> inWindow]
    ELSE [ok |-> TRUE, arr |-> Append(inWindow, t)]

\* consumeRateLimit for the array of one user at time t: the answer and the
\* array stored back
consumeRateLimit(arr, t) ==
    LET inWindow == InWindow(arr, t) IN
    IF Len(inWindow) >= RATE_LIMIT_COUNT
    THEN [ok |-> FALSE, arr |-> inWindow]
    ELSE [ok |-> TRUE, arr |-> Append(inWindow, t)]

----------------------------------------------------------------------------
(* Upstream failures and withRetry *)

RETRY_ATTEMPTS == 3

Err(status, code, message) == [status |-> status, code |-> code, message |-> message]

Errors ==
    { Err(Num(500), "ERR_BAD_RESPONSE", Str(<<"e","5","0","0">>)),
      Err(Num(429), "ERR_BAD_REQUEST", Str(<<"e","4","2","9">>)),
      Err(Num(400), "ERR_BAD_REQUEST", Str(<<"e","4","0","0">>)),
      Err(Undefined, "ECONNRESET", Str(<<>>)),
      Err(Undefined, "ENOTFOUND", Undefined) }

isRetryableError(err) ==
    \/ err.status = Num(429)
    \/ err.status.t = "number" /\ err.status.v >= 500
    \/ err.code \in {"ECONNRESET", "ECONNABORTED", "ETIMEDOUT"}

RETRY_BASE_DELAY_MS == 400

\* RETRY_BASE_DELAY_MS * 2 ** (attempt - 1)
RetryDelay(attemptNo) == RETRY_BASE_DELAY_MS * 2 ^ (attemptNo - 1)

\* variant: no failure is retried
canRetry_never(err, attemptNo) == FALSE

\* variant: every failure is retried while attempts are left
canRetry_anyError(err, attemptNo) == attemptNo < RETRY_ATTEMPTS

\* withRetry sleeps and calls the action again after this failure
canRetry(err, attemptNo) == isRetryableError(err) /\ attemptNo < RETRY_ATTEMPTS

----------------------------------------------------------------------------
(* Requests and upstream payloads *)

MaxLinks == 2
MaxRows  == 3

L(c) == <<"t",".","m","e","/",c>>
La == L("a")
Lb == L("b")
Lc == L("c")

LinkPool == {La, Lb, Lc}

\* deduplicated links of one message that takes the bulk path
RequestedLists ==
    UNION { { q \in [1..n -> LinkPool] : \A i, j \in 1..n : i # j => q[i] # q[j] } :
              n \in 2..MaxLinks }

sGone == <<"g","o","n","e">>

RowSamples ==
    { Obj(<<Entry(kLink, Str(La)), Entry(kStatus, Str(sValid))>>),
      Obj(<<Entry(kUrl, Str(Lb)), Entry(kState, Str(<<"D","E","A","D">>)),
            Entry(kReason, Str(sGone))>>),
      Obj(<<Entry(kLink, Str(La \o <<"/">>)), Entry(kStatus, Str(sValid))>>),
      Obj(<<Entry(kLink, Str(Lc)), Entry(kStatus, Str(<<"a","l","i","v","e">>))>>) }

RowLists(n) == UNION { [1..m -> RowSamples] : m \in 0..n }

ListPayloads == { Arr(l) : l \in RowLists(MaxRows) }

RowsKeys == {kResults, kData, kItems}

FieldPayloads ==
    { Obj(<<Entry(key, Arr(l))>>) : key \in RowsKeys, l \in RowLists(MaxRows - 1) }

FewLists ==
    { Arr(<<>>),
      Arr(<<Obj(<<Entry(kLink, Str(La)), Entry(kStatus, Str(sValid))>>)>>),
      Arr(<<Str(Lb), Str(La)>>) }

TwoFieldPayloads ==
    { Obj(<<Entry(kx[1], kx[2]), Entry(kx[3], kx[4])>>) :
        kx \in { q \in (RowsKeys \cup {sValid}) \X FewLists
                        \X (RowsKeys \cup {sValid}) \X FewLists :
                    q[1] # q[3] } }

Buckets == { Undefined, Arr(<<>>), Arr(<<Str(La)>>), Arr(<<Str(Lb), Str(La)>>) }

Field(key, val) == IF val = Undefined THEN <<>> ELSE <<Entry(key, val)>>

BucketPayloads ==
    { Obj(Field(sValid, b[1]) \o Field(sInvalid, b[2]) \o Field(sUnknown, b[3])) :
        b \in Buckets \X Buckets \X Buckets }

KeyedValues ==
    { Str(<<"D","e","a","d">>), Null,
      Obj(<<Entry(kStatus, Str(<<"o","k">>))>>),
      Obj(<<Entry(kLink, Str(Lc)), Entry(kStatus, Str(<<"b","a","d">>))>>) }

KeyedPayloads ==
    { Obj(o) : o \in Props({La, Lb, sFoo}, KeyedValues) }

OtherPayloads ==
    { Undefined, Null, Str(<<>>), Str(<<"o","k">>), Num(0), Bool(TRUE),
      Arr(<<Str(La), Null>>),
      Arr(<<Obj(<<Entry(kStatus, Str(<<"o","k">>))>>)>>),
      Arr(<<Obj(<<Entry(kLink, Str(La)), Entry(kStatus, Str(sValid))>>),
            Obj(<<Entry(kLink, Str(La)), Entry(kStatus, Str(sInvalid))>>)>>),
      Arr(<<Obj(<<Entry(kLink, Str(Lb)), Entry(kStatus, Str(sValid))>>),
            Obj(<<Entry(kLink, Str(La)), Entry(kStatus, Str(sInvalid))>>),
            Obj(<<Entry(kLink, Str(La)), Entry(kStatus, Str(<<"O","K">>))>>)>>),
      Obj(<<Entry(kResults, Null), Entry(kData, Arr(<<Str(La)>>))>>),
      Obj(<<Entry(kResults, Arr(<<>>)), Entry(La, Str(sValid))>>),
      Obj(<<Entry(sValid, Arr(<<>>)), Entry(La, Str(sValid))>>),
      Obj(<<Entry(kResults, Str(sFoo)), Entry(Lb, Str(sInvalid))>>),
      Obj(<<Entry(La, Str(sInvalid)), Entry(sValid, Arr(<<Str(Lb)>>))>>),
      Obj(<<Entry(La, Str(<<"d","e","a","d">>)),
            Entry(kItems, Arr(<<Obj(<<Entry(kLink, Str(Lb)),
                                      Entry(kStatus, Str(sValid))>>)>>))>>) }

Payloads ==
    ListPayloads \cup FieldPayloads \cup TwoFieldPayloads \cup BucketPayloads
    \cup KeyedPayloads \cup OtherPayloads

\* bodies of the single-link endpoint
SingleBodies ==
    { Obj(<<Entry(kStatus, Str(sValid))>>),
      Obj(<<Entry(kLink, Str(Lc)), Entry(kResult, Str(<<"D","e","a","d">>)),
            Entry(kError, Str(sGone))>>),
      Obj(<<Entry(sValid, Bool(TRUE))>>),
      Str(<<>>), Null, Str(<<"o","k">>) }

----------------------------------------------------------------------------
(* Inputs of the formatter, of chunkLines and of deduplicateLinks; users *)

MaxResults  == 3
MaxLines    == 3
MaxChunkLen == 46
MaxDedup    == 5

SeqsUpTo(S, n) == UNION { [1..k -> S] : k \in 0..n }

\* a result as normalizeResult returns it
Res(link, status) == [link |-> link, status |-> status, reason |-> Null]

ResultPool ==
    { Res(La, sValid), Res(Lb, sValid), Res(La, sInvalid), Res(Lb, sUnknown) }

ResultLists == SeqsUpTo(ResultPool, MaxResults)

Options(b) == Obj(<<Entry(kShowInvalid, Bool(b))>>)

OptionsValues == { Undefined, Options(TRUE), Options(FALSE) }

LinePool == { <<>>, <<"a">>, <<"1","2","3","4","5">>, <<"6","7","8","9","0">>, <<"a","b","c","d","e">> }

LineLists == SeqsUpTo(LinePool, MaxLines)

DedupPool == { <<"a">>, <<"b">>, <<"c">>, <<"A">> }

DedupLists == SeqsUpTo(DedupPool, MaxDedup)

Users == {1, 2}

\* what follows "/invalid" in the text of the command
InvalidInputs ==
    { <<>>,
      <<"o","n">>,
      <<"O","F","F">>,
      <<" ","h","i","d","e"," ">>,
      <<"m","a","y","b","e">> }

\* lists checkBulk resolves with for two distinct links and more
CheckedLists ==
    { rs \in SeqsUpTo({ Res(La, sValid), Res(Lb, sInvalid), Res(Lc, sUnknown) },
                      MaxResults) :
        /\ Len(rs) >= 2
        /\ \A i, j \in 1..Len(rs) : i # j => rs[i] # rs[j] }

MaxPieces == 4

\* pieces the texts given to extractUrls are made of
UrlPieces == { La, pHttps, pHttp, pTme, <<" ">>, <<",">>, <<"x">> }

RECURSIVE Flatten(_)
Flatten(list) == IF list = <<>> THEN <<>> ELSE Head(list) \o Flatten(Tail(list))

Texts == { Flatten(ps) : ps \in SeqsUpTo(UrlPieces, MaxPieces) }

----------------------------------------------------------------------------
(* normalizeResult applied to one raw item *)

BulkIdle ==
    /\ links = <<>>
    /\ pc = "idle"
    /\ attempt = 0
    /\ tryNo = 0
    /\ data = Undefined
    /\ rows = Undefined
    /\ singlePc = <<>>
    /\ singleTry = <<>>
    /\ singleCalls = <<>>
    /\ settled = <<>>
    /\ out = <<>>

NormIdle ==
    /\ nItem = Undefined
    /\ nResult = Undefined

FmtIdle ==
    /\ results = <<>>
    /\ options = Undefined
    /\ lines = <<>>
    /\ maxLen = 0
    /\ chunks = <<>>
    /\ fpc = "idle"

DedupIdle ==
    /\ dLinks = <<>>
    /\ dUnique = Undefined

NoUpdate == [from |-> 0, kind |-> "none", input |-> <<>>]

BotIdle ==
    /\ userPrefs = [u \in Users |-> Undefined]
    /\ pending = [u \in Users |-> FALSE]
    /\ update = NoUpdate
    /\ reply = "none"

UrlIdle ==
    /\ eText = <<>>
    /\ eUrls = Undefined

RetryIdle ==
    /\ wPc = "idle"
    /\ wAttempt = 0
    /\ wCalls = 0
    /\ wErrs = <<>>
    /\ wSlept = <<>>
    /\ wResult = Undefined

NoMsg == [from |-> 0, chat |-> 0, text |-> <<>>]

GuardIdle ==
    /\ ALLOWED_CHAT_IDS = {}
    /\ AUTH_PASSWORD = <<>>
    /\ authenticatedUsers = {}
    /\ rateLimiter = [u \in Users |-> <<>>]
    /\ now = 0
    /\ msg = NoMsg
    /\ replies = <<>>
    /\ calls = <<>>
    /\ accepted = [u \in Users |-> <<>>]
    /\ authOk = [u \in Users |-> 0]

SendIdle == sLines = <<>> /\ sChunks = <<>> /\ sends = <<>>

StoreIdle ==
    /\ authStore = <<>>
    /\ prefsStore = [u \in Users |-> Undefined]
    /\ writers = <<>>
    /\ storeErr = FALSE

ExtraIdle ==
    /\ UrlIdle
    /\ RetryIdle
    /\ GuardIdle
    /\ bulkLast = "none"
    /\ SendIdle
    /\ StoreIdle

RestIdle == FmtIdle /\ DedupIdle /\ BotIdle /\ ExtraIdle

InitNormalize ==
    /\ nItem \in Items
    /\ nResult = Undefined
    /\ BulkIdle
    /\ RestIdle

NormalizeResult ==
    /\ nResult = Undefined
    /\ nResult' = normalizeResult(nItem)
    /\ UNCHANGED nItem
    /\ UNCHANGED bulkVars
    /\ UNCHANGED restVars

NextNormalize == NormalizeResult

SpecNormalize == InitNormalize /\ [][NextNormalize]_vars

----------------------------------------------------------------------------
(* extractBulkRows applied to one payload *)

InitExtract ==
    /\ NormIdle
    /\ RestIdle
    /\ links \in RequestedLists
    /\ data \in Payloads
    /\ pc = "extract"
    /\ attempt = 0
    /\ tryNo = 0
    /\ rows = Undefined
    /\ singlePc = <<>>
    /\ singleTry = <<>>
    /\ singleCalls = <<>>
    /\ settled = <<>>
    /\ out = <<>>

ExtractBulkRows ==
    /\ pc = "extract"
    /\ rows' = extractBulkRows(data, links)
    /\ pc' = "extracted"
    /\ UNCHANGED <<links, data, attempt, tryNo,
                   singlePc, singleTry, singleCalls, settled, out>>
    /\ UNCHANGED normVars
    /\ UNCHANGED restVars

NextExtract == ExtractBulkRows

SpecExtract == InitExtract /\ [][NextExtract]_vars

----------------------------------------------------------------------------
(* checkBulk(links).  lastErr and hadSuccessfulResponse only select the line *)
(* that is logged before the fallback and are left out.                     *)

\* the four request encodings: { links }, links, { data: links }, { urls: links }
NumAttempts == 4

kLinks == <<"l","i","n","k","s">>
kUrls  == <<"u","r","l","s">>

\* the bodies of the POSTs of the array attempts, in its order
attempts(ls) ==
    LET list == Arr([i \in 1..Len(ls) |-> Str(ls[i])]) IN
    << Obj(<<Entry(kLinks, list)>>),
       list,
       Obj(<<Entry(kData, list)>>),
       Obj(<<Entry(kUrls, list)>>) >>

Pending      == [status |-> "pending"]
Fulfilled(r) == [status |-> "fulfilled", value |-> r]
Rejected(e)  == [status |-> "rejected", reason |-> e]

Init ==
    /\ NormIdle
    /\ RestIdle
    /\ links \in RequestedLists
    /\ pc = "bulk"
    /\ attempt = 1
    /\ tryNo = 1
    /\ data = Undefined
    /\ rows = Undefined
    /\ singlePc = <<>>
    /\ singleTry = <<>>
    /\ singleCalls = <<>>
    /\ settled = <<>>
    /\ out = <<>>

\* checkBulkFallback(links): links.map((link) => checkSingle(link))
StartFallback ==
    /\ pc' = "fallback"
    /\ tryNo' = 0
    /\ rows' = Undefined
    /\ singlePc' = [i \in 1..Len(links) |-> "call"]
    /\ singleTry' = [i \in 1..Len(links) |-> 1]
    /\ singleCalls' = [i \in 1..Len(links) |-> 1]
    /\ settled' = [i \in 1..Len(links) |-> Pending]
    /\ UNCHANGED <<attempt, out>>

\* end of one iteration of the loop over attempts without a return
NextAttempt(rs) ==
    /\ data' = Undefined
    /\ IF attempt < NumAttempts
       THEN /\ rows' = rs
            /\ attempt' = attempt + 1
            /\ tryNo' = 1
            /\ UNCHANGED <<pc, singlePc, singleTry, singleCalls, settled, out>>
       ELSE StartFallback

\* a bulk POST is answered with a body
BulkRespond ==
    \E d \in Payloads :
        /\ pc = "bulk"
        /\ LET rs == extractBulkRows(d, links) IN
           IF BulkReturns(rs, links)
           THEN /\ data' = d
                /\ rows' = rs
                /\ out' = BulkResult(rs, links)
                /\ pc' = "done"
                /\ tryNo' = 0
                /\ UNCHANGED <<attempt, singlePc, singleTry, singleCalls, settled>>
           ELSE NextAttempt(rs)
        /\ bulkLast' = "answered"
        /\ UNCHANGED <<links, nItem, nResult, bulkOthers>>

\* a bulk POST fails
BulkFail ==
    \E err \in Errors :
        /\ pc = "bulk"
        /\ IF canRetry(err, tryNo)
           THEN /\ pc' = "bulkSleep"
                /\ UNCHANGED <<attempt, tryNo, data, rows,
                               singlePc, singleTry, singleCalls, settled,
                               out>>
           ELSE NextAttempt(Undefined)
        /\ bulkLast' = IF isRetryableError(err) THEN "retryable" ELSE "fatal"
        /\ UNCHANGED <<links, nItem, nResult, bulkOthers>>

\* the backoff sleep of withRetry ends
BulkSleepDone ==
    /\ pc = "bulkSleep"
    /\ pc' = "bulk"
    /\ tryNo' = tryNo + 1
    /\ UNCHANGED <<links, attempt, data, rows,
                   singlePc, singleTry, singleCalls, settled, out, nItem, nResult, restVars>>

\* checkSingle(link) once its GET is answered with a body
checkSingle(link, body) ==
    normalizeResult(Obj(Put(SpreadEntries(IF Truthy(body) THEN body ELSE Obj(<<>>)),
                            kLink, Str(link))))

SingleRespond(i) ==
    \E body \in SingleBodies :
        /\ pc = "fallback"
        /\ singlePc[i] = "call"
        /\ singlePc' = [singlePc EXCEPT ![i] = "settled"]
        /\ settled' = [settled EXCEPT ![i] = Fulfilled(checkSingle(links[i], body))]
        /\ UNCHANGED <<links, pc, attempt, tryNo, data, rows,
                       singleTry, singleCalls, out, nItem, nResult, restVars>>

SingleFail(i) ==
    \E err \in Errors :
        /\ pc = "fallback"
        /\ singlePc[i] = "call"
        /\ IF canRetry(err, singleTry[i])
           THEN /\ singlePc' = [singlePc EXCEPT ![i] = "sleep"]
                /\ UNCHANGED settled
           ELSE /\ singlePc' = [singlePc EXCEPT ![i] = "settled"]
                /\ settled' = [settled EXCEPT ![i] = Rejected(err)]
        /\ UNCHANGED <<links, pc, attempt, tryNo, data, rows,
                       singleTry, singleCalls, out, nItem, nResult, restVars>>

SingleSleepDone(i) ==
    /\ pc = "fallback"
    /\ singlePc[i] = "sleep"
    /\ singlePc' = [singlePc EXCEPT ![i] = "call"]
    /\ singleTry' = [singleTry EXCEPT ![i] = singleTry[i] + 1]
    /\ UNCHANGED <<links, pc, attempt, tryNo, data, rows,
                   singleCalls, settled, out, nItem, nResult, restVars>>

\* variant: a rejected call is reported with a status of its own
FallbackEntry_failed(entry, link) ==
    IF entry.status = "fulfilled" THEN entry.value
    ELSE [link |-> link, status |-> <<"f","a","i","l","e","d">>,
          reason |-> entry.reason.message]

\* settled.map((entry, idx) => ...)
FallbackEntry(entry, link) ==
    IF entry.status = "fulfilled" THEN entry.value
    ELSE normalizeResult(Obj(<<Entry(kLink, Str(link)),
                               Entry(kStatus, Str(sUnknown)),
                               Entry(kReason, IF Truthy(entry.reason.message)
                                              THEN entry.reason.message
                                              ELSE Str(CheckFailed))>>))

Resolved(list) == [state |-> "resolved", value |-> list]
RejectedWith(e) == [state |-> "rejected", value |-> <<>>]

\* variant: Promise.all, the first rejection rejects the batch
FallbackPromise_all(entries, requestedLinks) ==
    IF \E i \in 1..Len(entries) : entries[i].status = "rejected"
    THEN RejectedWith(entries[CHOOSE i \in 1..Len(entries) :
                                entries[i].status = "rejected"].reason)
    ELSE Resolved([i \in 1..Len(requestedLinks) |-> entries[i].value])

\* what the promise of checkBulkFallback settles with, given the entries of
\* Promise.allSettled
FallbackPromise(entries, requestedLinks) ==
    Resolved([i \in 1..Len(requestedLinks) |->
                FallbackEntry(entries[i], requestedLinks[i])])

\* Promise.allSettled resolves once every checkSingle has settled
checkBulkFallback ==
    /\ pc = "fallback"
    /\ \A i \in 1..Len(links) : singlePc[i] = "settled"
    /\ LET p == FallbackPromise(settled, links) IN
       /\ out' = p.value
       /\ pc' = IF p.state = "resolved" THEN "done" ELSE "rejected"
    /\ UNCHANGED <<links, attempt, tryNo, data, rows,
                   singlePc, singleTry, singleCalls, settled, nItem,
                   nResult, restVars>>

Next ==
    \/ BulkRespond
    \/ BulkFail
    \/ BulkSleepDone
    \/ \E i \in 1..Len(links) : SingleRespond(i)
    \/ \E i \in 1..Len(links) : SingleFail(i)
    \/ \E i \in 1..Len(links) : SingleSleepDone(i)
    \/ checkBulkFallback

Spec == Init /\ [][Next]_vars

----------------------------------------------------------------------------
(* buildBulkLines and chunkLines applied to one input *)

InitReport ==
    /\ NormIdle
    /\ ExtraIdle
    /\ BulkIdle
    /\ DedupIdle
    /\ BotIdle
    /\ maxLen \in 0..MaxChunkLen
    /\ chunks = <<>>
    /\ \/ /\ results \in ResultLists
          /\ options \in OptionsValues
          /\ lines = <<>>
          /\ fpc = "build"
       \/ /\ results = <<>>
          /\ options = Undefined
          /\ lines \in LineLists
          /\ fpc = "lines"

BuildBulkLines ==
    /\ fpc = "build"
    /\ lines' = buildBulkLines(results, options)
    /\ fpc' = "built"
    /\ UNCHANGED <<results, options, maxLen, chunks>>
    /\ UNCHANGED <<normVars, bulkVars, dedupVars, botVars, extraVars>>

ChunkLines ==
    /\ fpc \in {"built", "lines"}
    /\ chunks' = chunkLines(lines, maxLen)
    /\ fpc' = IF fpc = "built" THEN "builtChunked" ELSE "chunked"
    /\ UNCHANGED <<results, options, lines, maxLen>>
    /\ UNCHANGED <<normVars, bulkVars, dedupVars, botVars, extraVars>>

NextReport == BuildBulkLines \/ ChunkLines

SpecReport == InitReport /\ [][NextReport]_vars

----------------------------------------------------------------------------
(* deduplicateLinks applied to one list *)

InitDedup ==
    /\ NormIdle
    /\ ExtraIdle
    /\ BulkIdle
    /\ FmtIdle
    /\ BotIdle
    /\ dLinks \in DedupLists
    /\ dUnique = Undefined

DeduplicateLinks ==
    /\ dUnique = Undefined
    /\ dUnique' = Arr(deduplicateLinks(dLinks))
    /\ UNCHANGED dLinks
    /\ UNCHANGED <<normVars, bulkVars, fmtVars, botVars, extraVars>>

NextDedup == DeduplicateLinks

SpecDedup == InitDedup /\ [][NextDedup]_vars

----------------------------------------------------------------------------
(* The /invalid command and the bulk report of bot.on("text").  The outcome *)
(* of guard(ctx) and of the write of the store are inputs of the handlers.  *)

InitPrefs ==
    /\ NormIdle
    /\ ExtraIdle
    /\ BulkIdle
    /\ DedupIdle
    /\ FmtIdle
    /\ BotIdle

\* bot.command("invalid")
InvalidCommand(u) ==
    \E input \in InvalidInputs, guardOk \in BOOLEAN, saved \in BOOLEAN :
        LET word == ToLowerCase(Trim(input)) IN
        /\ update' = [from |-> u, kind |-> "invalid", input |-> input]
        /\ IF ~guardOk
           THEN /\ reply' = "refused"
                /\ UNCHANGED userPrefs
           ELSE IF word = <<>>
           THEN /\ reply' = IF getUserPref(userPrefs, u).showInvalidBulk
                            THEN "status ON" ELSE "status OFF"
                /\ UNCHANGED userPrefs
           ELSE IF word \in OnWords \cup OffWords
           THEN /\ userPrefs' = setShowInvalidBulk(userPrefs, u, word \in OnWords)
                /\ reply' = IF ~saved THEN "Failed to save setting."
                            ELSE IF word \in OnWords THEN "Updated ON"
                            ELSE "Updated OFF"
           ELSE /\ reply' = "Invalid value."
                /\ UNCHANGED userPrefs
        /\ UNCHANGED pending
        /\ UNCHANGED <<normVars, bulkVars, dedupVars, fmtVars, extraVars>>

\* bot.on("text") with two links or more, up to the call of checkBulk
TextBulk(u) ==
    \E guardOk \in BOOLEAN :
        /\ ~pending[u]
        /\ update' = [from |-> u, kind |-> "text", input |-> <<>>]
        /\ IF guardOk
           THEN /\ pending' = [pending EXCEPT ![u] = TRUE]
                /\ reply' = "Checking"
           ELSE /\ reply' = "refused"
                /\ UNCHANGED pending
        /\ UNCHANGED userPrefs
        /\ UNCHANGED <<normVars, bulkVars, dedupVars, fmtVars, extraVars>>

\* bot.on("text") once checkBulk has resolved: buildBulkLines, replyInChunks
BulkReport(u) ==
    \E rs \in CheckedLists :
        LET opts == Options(getUserPref(userPrefs, u).showInvalidBulk)
            ls   == buildBulkLines(rs, opts)
        IN  /\ pending[u]
            /\ pending' = [pending EXCEPT ![u] = FALSE]
            /\ results' = rs
            /\ options' = opts
            /\ lines' = ls
            /\ maxLen' = REPLY_CHUNK_MAX_LEN
            /\ chunks' = chunkLines(ls, REPLY_CHUNK_MAX_LEN)
            /\ fpc' = "replied"
            /\ update' = [from |-> u, kind |-> "text", input |-> <<>>]
            /\ reply' = "report"
            /\ UNCHANGED userPrefs
            /\ UNCHANGED <<normVars, bulkVars, dedupVars, extraVars>>

\* bot.on("text"): a reply of the report fails
BulkFailed(u) ==
    /\ pending[u]
    /\ pending' = [pending EXCEPT ![u] = FALSE]
    /\ update' = [from |-> u, kind |-> "text", input |-> <<>>]
    /\ reply' = "Bulk check failed."
    /\ UNCHANGED userPrefs
    /\ UNCHANGED <<normVars, bulkVars, dedupVars, fmtVars, extraVars>>

NextPrefs ==
    \/ \E u \in Users : InvalidCommand(u)
    \/ \E u \in Users : TextBulk(u)
    \/ \E u \in Users : BulkReport(u)
    \/ \E u \in Users : BulkFailed(u)

SpecPrefs == InitPrefs /\ [][NextPrefs]_vars

----------------------------------------------------------------------------
(* extractUrls applied to one text *)

InitUrls ==
    /\ NormIdle
    /\ BulkIdle
    /\ FmtIdle
    /\ DedupIdle
    /\ BotIdle
    /\ GuardIdle
    /\ bulkLast = "none"
    /\ SendIdle
    /\ StoreIdle
    /\ RetryIdle
    /\ eText \in Texts
    /\ eUrls = Undefined

ExtractUrls ==
    /\ eUrls = Undefined
    /\ eUrls' = Arr(extractUrls(eText))
    /\ UNCHANGED eText
    /\ UNCHANGED urlOthers

NextUrls == ExtractUrls

SpecUrls == InitUrls /\ [][NextUrls]_vars

----------------------------------------------------------------------------
(* withRetry(action): every invocation of the action succeeds with a value *)
(* or fails with an error                                                   *)

RetryErrors ==
    Errors
    \cup { Err(Num(503), "ERR_BAD_RESPONSE", Str(<<"e","5","0","3">>)),
           Err(Num(404), "ERR_BAD_REQUEST", Str(<<"e","4","0","4">>)),
           Err(Undefined, "ETIMEDOUT", Str(<<>>)),
           Err(Undefined, "ECONNABORTED", Str(<<>>)) }

RetryValues == { Obj(<<Entry(kStatus, Str(sValid))>>), Str(<<>>) }

InitRetry ==
    /\ NormIdle
    /\ BulkIdle
    /\ FmtIdle
    /\ DedupIdle
    /\ BotIdle
    /\ GuardIdle
    /\ bulkLast = "none"
    /\ SendIdle
    /\ StoreIdle
    /\ UrlIdle
    /\ wPc = "call"
    /\ wAttempt = 1
    /\ wCalls = 1
    /\ wErrs = <<>>
    /\ wSlept = <<>>
    /\ wResult = Undefined

\* return await action()
RetryReturns ==
    \E value \in RetryValues :
        /\ wPc = "call"
        /\ wPc' = "returned"
        /\ wResult' = value
        /\ UNCHANGED <<wAttempt, wCalls, wErrs, wSlept>>
        /\ UNCHANGED retryOthers

\* catch (err): break and throw lastErr, or sleep
RetryCatches ==
    \E err \in RetryErrors :
        /\ wPc = "call"
        /\ wErrs' = Append(wErrs, err)
        /\ IF canRetry(err, wAttempt)
           THEN /\ wPc' = "sleep"
                /\ wSlept' = Append(wSlept, RetryDelay(wAttempt))
                /\ UNCHANGED wResult
           ELSE /\ wPc' = "thrown"
                /\ wResult' = err
                /\ UNCHANGED wSlept
        /\ UNCHANGED <<wAttempt, wCalls>>
        /\ UNCHANGED retryOthers

\* the sleep ends: attempt++ and the action is invoked again
RetrySleepDone ==
    /\ wPc = "sleep"
    /\ wPc' = IF wAttempt + 1 <= RETRY_ATTEMPTS THEN "call" ELSE "thrown"
    /\ wAttempt' = wAttempt + 1
    /\ wCalls' = IF wAttempt + 1 <= RETRY_ATTEMPTS THEN wCalls + 1 ELSE wCalls
    /\ wResult' = IF wAttempt + 1 <= RETRY_ATTEMPTS THEN wResult
                  ELSE wErrs[Len(wErrs)]
    /\ UNCHANGED <<wErrs, wSlept>>
    /\ UNCHANGED retryOthers

NextRetry == RetryReturns \/ RetryCatches \/ RetrySleepDone

SpecRetry == InitRetry /\ [][NextRetry]_vars

----------------------------------------------------------------------------
(* The bot: one action per handler, from the guard to its last reply *)

MaxNow == 3

Chats == {10, 20}

Secret == <<"p","w">>

Cmd(word) == <<"/">> \o word

Sp == <<" ">>

\* a text longer than MAX_MESSAGE_CHARS that holds one link
LongText == La \o Sp \o [i \in 1..MAX_MESSAGE_CHARS |-> "x"]

BotTexts ==
    { Cmd(wStart), Cmd(wBulk), Cmd(wStats),
      Cmd(wAuth), Cmd(wAuth) \o Sp \o Secret, Cmd(wAuth) \o Sp \o <<"P","W">>,
      Cmd(wInvalid) \o Sp \o <<"o","f","f">>,
      Cmd(wCheck) \o Sp \o La,
      La \o Sp \o La, La \o Sp \o Lb, La \o Sp \o Lb \o Sp \o Lc,
      LongText, <<"/","g","o"," ">> \o La }

LimitTexts == { Cmd(wStats), La, LongText }

\* what the handlers compute from the text of a message alone
Parsed ==
    [text \in BotTexts \cup LimitTexts |->
        [command  |-> CommandOf(text),
         exempt   |-> isAuthExemptMessage(text),
         supplied |-> StripCommand(text, wAuth),
         word     |-> ToLowerCase(StripCommand(text, wInvalid)),
         input    |-> StripCommand(text, wCheck),
         urls     |-> extractUrls(StripCommand(text, wCheck)),
         trimmed  |-> Trim(text),
         found    |-> deduplicateLinks(extractUrls(Trim(text)))]]

\* variant: the length of the text is not checked
guard_anyLength(allowed, password, authenticated, arr, userId, chatId, text, t) ==
    IF ~isAllowedChat(allowed, chatId) THEN "chat"
    ELSE IF ~isAuthenticated(password, authenticated, userId)
            /\ ~Parsed[text].exempt THEN "auth"
    ELSE IF ~consumeRateLimit(arr, t).ok THEN "rate"
    ELSE "ok"

\* guard(ctx): which check refuses the message ("ok" if none)
guard(allowed, password, authenticated, arr, userId, chatId, text, t) ==
    IF ~isAllowedChat(allowed, chatId) THEN "chat"
    ELSE IF ~isAuthenticated(password, authenticated, userId)
            /\ ~Parsed[text].exempt THEN "auth"
    ELSE IF ~consumeRateLimit(arr, t).ok THEN "rate"
    ELSE IF Len(text) > MAX_MESSAGE_CHARS THEN "size"
    ELSE "ok"

InitBot ==
    /\ NormIdle
    /\ BulkIdle
    /\ FmtIdle
    /\ DedupIdle
    /\ BotIdle
    /\ UrlIdle
    /\ bulkLast = "none"
    /\ SendIdle
    /\ StoreIdle
    /\ RetryIdle
    /\ ALLOWED_CHAT_IDS \in {{}, {10}}
    /\ AUTH_PASSWORD \in {<<>>, Secret}
    /\ authenticatedUsers \in {{}, {2}}
    /\ rateLimiter = [u \in Users |-> <<>>]
    /\ now = 0
    /\ msg = NoMsg
    /\ replies = <<>>
    /\ calls = <<>>
    /\ accepted = [u \in Users |-> <<>>]
    /\ authOk = [u \in Users |-> 0]

\* the clock advances between two messages
Tick ==
    /\ now < MaxNow
    /\ now' = now + 1
    /\ UNCHANGED <<ALLOWED_CHAT_IDS, AUTH_PASSWORD, authenticatedUsers, rateLimiter,
                   msg, replies, calls, accepted, authOk, userPrefs>>
    /\ UNCHANGED guardOthers

GuardOf(u, c, text) ==
    guard(ALLOWED_CHAT_IDS, AUTH_PASSWORD, authenticatedUsers, rateLimiter[u],
          u, c, text, now)

\* the reply of guard(ctx) when it returns false
Refusal(g) ==
    CASE g = "chat" -> "This chat is not allowed to use this bot."
      [] g = "auth" -> "Password required."
      [] g = "rate" -> "Rate limit hit."
      [] g = "size" -> "Message too large."

\* what guard(ctx) leaves behind: the limiter is consulted once the chat and
\* the password checks have passed
Guarded(u, c, text) ==
    LET g == GuardOf(u, c, text) IN
    /\ msg' = [from |-> u, chat |-> c, text |-> text]
    /\ rateLimiter' =
          IF g \in {"rate", "size", "ok"}
          THEN [rateLimiter EXCEPT ![u] = consumeRateLimit(rateLimiter[u], now).arr]
          ELSE rateLimiter
    /\ accepted' =
          IF g \in {"size", "ok"}
          THEN [accepted EXCEPT ![u] = Append(@, now)]
          ELSE accepted
    /\ UNCHANGED <<ALLOWED_CHAT_IDS, AUTH_PASSWORD, now>>
    /\ UNCHANGED guardOthers

\* bot.start, bot.help, bot.command("bulk")
InfoCommand(u, c, text) ==
    LET g == GuardOf(u, c, text) IN
    /\ Parsed[text].command \in {wStart, wHelp, wBulk}
    /\ Guarded(u, c, text)
    /\ replies' = IF g # "ok" THEN <<Refusal(g)>>
                  ELSE IF Parsed[text].command = wStart THEN <<"start">>
                  ELSE IF Parsed[text].command = wHelp THEN <<"help">>
                  ELSE <<"bulk prompt">>
    /\ calls' = <<>>
    /\ UNCHANGED <<authenticatedUsers, authOk, userPrefs>>

\* variant: the password is compared without regard to case
PasswordAccepted_ignoreCase(supplied, password) ==
    supplied # <<>> /\ ToLowerCase(supplied) = ToLowerCase(password)

\* the two password tests of bot.command("auth"): something was supplied
\* and it is the configured password
PasswordAccepted(supplied, password) ==
    supplied # <<>> /\ supplied = password

\* bot.command("auth"), authenticateUser
AuthCommand(u, c, text) ==
    \E saved \in IF PasswordAccepted(Parsed[text].supplied, AUTH_PASSWORD)
                 THEN BOOLEAN ELSE {TRUE} :
        LET supplied == Parsed[text].supplied
            matches  == /\ isAllowedChat(ALLOWED_CHAT_IDS, c)
                        /\ hasPasswordAuth(AUTH_PASSWORD)
                        /\ PasswordAccepted(supplied, AUTH_PASSWORD)
            added    == matches /\ u \notin authenticatedUsers
        IN  /\ Parsed[text].command = wAuth
            /\ msg' = [from |-> u, chat |-> c, text |-> text]
            /\ replies' =
                  IF ~isAllowedChat(ALLOWED_CHAT_IDS, c)
                  THEN <<"This chat is not allowed to use this bot.">>
                  ELSE IF ~hasPasswordAuth(AUTH_PASSWORD)
                  THEN <<"Password auth is not enabled.">>
                  ELSE IF supplied = <<>> THEN <<"Provide password.">>
                  ELSE IF ~PasswordAccepted(supplied, AUTH_PASSWORD)
                  THEN <<"Invalid password.">>
                  ELSE IF ~added THEN <<"Already authenticated.">>
                  ELSE IF saved THEN <<"Authentication successful.">>
                  ELSE <<"Authenticated for this run, but failed to persist auth store.">>
            /\ authenticatedUsers' =
                  IF added THEN authenticatedUsers \cup {u} ELSE authenticatedUsers
            /\ authOk' = IF added /\ saved THEN [authOk EXCEPT ![u] = @ + 1] ELSE authOk
            /\ calls' = <<>>
            /\ UNCHANGED <<ALLOWED_CHAT_IDS, AUTH_PASSWORD, rateLimiter, now,
                           accepted, userPrefs>>
            /\ UNCHANGED guardOthers

\* bot.command("invalid") behind the guard
InvalidHandler(u, c, text) ==
    \E saved \in IF GuardOf(u, c, text) = "ok" THEN BOOLEAN ELSE {TRUE} :
        LET g    == GuardOf(u, c, text)
            word == Parsed[text].word
        IN  /\ Parsed[text].command = wInvalid
            /\ Guarded(u, c, text)
            /\ userPrefs' =
                  IF g = "ok" /\ word \in OnWords \cup OffWords
                  THEN setShowInvalidBulk(userPrefs, u, word \in OnWords)
                  ELSE userPrefs
            /\ replies' =
                  IF g # "ok" THEN <<Refusal(g)>>
                  ELSE IF word = <<>>
                  THEN IF getUserPref(userPrefs, u).showInvalidBulk
                       THEN <<"status ON">> ELSE <<"status OFF">>
                  ELSE IF word \notin OnWords \cup OffWords THEN <<"Invalid value.">>
                  ELSE IF ~saved THEN <<"Failed to save setting.">>
                  ELSE IF word \in OnWords THEN <<"Updated ON">>
                  ELSE <<"Updated OFF">>
            /\ calls' = <<>>
            /\ UNCHANGED <<authenticatedUsers, authOk>>

\* bot.command("stats"), getStats
StatsCommand(u, c, text) ==
    \E ok \in IF GuardOf(u, c, text) = "ok" THEN BOOLEAN ELSE {TRUE} :
        LET g == GuardOf(u, c, text) IN
        /\ Parsed[text].command = wStats
        /\ Guarded(u, c, text)
        /\ calls' = IF g = "ok" THEN <<"stats">> ELSE <<>>
        /\ replies' = IF g # "ok" THEN <<Refusal(g)>>
                      ELSE IF ok THEN <<"stats">>
                      ELSE <<"Failed to fetch stats.">>
        /\ UNCHANGED <<authenticatedUsers, authOk, userPrefs>>

\* bot.command("check"), checkSingle
CheckCommand(u, c, text) ==
    \E ok \in IF GuardOf(u, c, text) = "ok" THEN BOOLEAN ELSE {TRUE} :
        LET g     == GuardOf(u, c, text)
            input == Parsed[text].input
            urls  == Parsed[text].urls
            link  == IF Len(urls) > 0 /\ urls[1] # <<>> THEN urls[1] ELSE input
        IN  /\ Parsed[text].command = wCheck
            /\ Guarded(u, c, text)
            /\ calls' = IF g = "ok" /\ link # <<>> THEN <<"single">> ELSE <<>>
            /\ replies' = IF g # "ok" THEN <<Refusal(g)>>
                          ELSE IF link = <<>> THEN <<"Provide a link.">>
                          ELSE IF ok THEN <<"result">>
                          ELSE <<"Check failed.">>
            /\ UNCHANGED <<authenticatedUsers, authOk, userPrefs>>

\* bot.on("text"): every text no command handler takes
TextHandler(u, c, text) ==
    \E ok \in IF GuardOf(u, c, text) = "ok" THEN BOOLEAN ELSE {TRUE} :
        LET g       == GuardOf(u, c, text)
            trimmed == Parsed[text].trimmed
            found   == Parsed[text].found
            silent  == trimmed = <<>> \/ Head(trimmed) = "/" \/ Len(found) = 0
        IN  /\ Parsed[text].command
                  \notin {wStart, wHelp, wBulk, wAuth, wInvalid, wStats, wCheck}
            /\ Guarded(u, c, text)
            /\ calls' = IF g # "ok" \/ silent \/ Len(found) > MAX_LINKS_PER_BULK
                        THEN <<>>
                        ELSE IF Len(found) = 1 THEN <<"single">>
                        ELSE <<"bulk">>
            /\ replies' =
                  IF g # "ok" THEN <<Refusal(g)>>
                  ELSE IF silent THEN <<>>
                  ELSE IF Len(found) > MAX_LINKS_PER_BULK THEN <<"Too many links.">>
                  ELSE IF Len(found) = 1
                  THEN IF ok THEN <<"result">> ELSE <<"Check failed.">>
                  ELSE IF ok THEN <<"Checking", "report">>
                  ELSE <<"Checking", "Bulk check failed.">>
            /\ UNCHANGED <<authenticatedUsers, authOk, userPrefs>>

\* messages that arrive within one millisecond
NextBot ==
    \E u \in Users, c \in Chats, text \in BotTexts :
        \/ InfoCommand(u, c, text)
        \/ AuthCommand(u, c, text)
        \/ InvalidHandler(u, c, text)
        \/ StatsCommand(u, c, text)
        \/ CheckCommand(u, c, text)
        \/ TextHandler(u, c, text)

SpecBot == InitBot /\ [][NextBot]_vars

----------------------------------------------------------------------------
(* The rate limiter over time: guarded messages of users who pass the chat *)
(* and the password checks                                                  *)

InitLimit ==
    /\ NormIdle
    /\ BulkIdle
    /\ FmtIdle
    /\ DedupIdle
    /\ BotIdle
    /\ UrlIdle
    /\ RetryIdle
    /\ bulkLast = "none"
    /\ SendIdle
    /\ StoreIdle
    /\ GuardIdle

NextLimit ==
    \/ Tick
    \/ \E u \in Users, text \in LimitTexts :
           \/ StatsCommand(u, u, text)
           \/ TextHandler(u, u, text)

SpecLimit == InitLimit /\ [][NextLimit]_vars

----------------------------------------------------------------------------
(* replyInChunks and the catch of the bulk handler *)

MaxReportLines == 3

\* a line of n characters c
Line(c, n) == [i \in 1..n |-> c]

\* lines of which two or three fill a chunk of REPLY_CHUNK_MAX_LEN characters
ReportLinePool ==
    { Line("a", 1800), Line("b", 1700), Line("c", REPLY_CHUNK_MAX_LEN),
      <<"o","k">> }

ReportLineLists ==
    UNION { [1..n -> ReportLinePool] : n \in 1..MaxReportLines }

BulkFailedText ==
    <<"B","u","l","k"," ","c","h","e","c","k"," ","f","a","i","l","e","d",".">>

Send(kind, text) == [kind |-> kind, text |-> text, state |-> "pending"]

\* the first reply replyInChunks starts
FirstSend(chunkList) ==
    IF chunkList = <<>> THEN <<>> ELSE <<Send("chunk", chunkList[1])>>

Settle(list, ok) ==
    [list EXCEPT ![Len(list)].state = IF ok THEN "ok" ELSE "failed"]

\* variant: a chunk that could not be sent is skipped
AfterSend_skipFailed(list, chunkList, ok) ==
    LET done == Settle(list, ok)
        last == list[Len(list)]
    IN  IF last.kind = "chunk" /\ Len(done) < Len(chunkList)
        THEN Append(done, Send("chunk", chunkList[Len(done) + 1]))
        ELSE done

\* the replies started once the pending one has settled: the loop of
\* replyInChunks goes on after a chunk that was sent, the catch of the
\* handler replies after one that was not
AfterSend(list, chunkList, ok) ==
    LET done == Settle(list, ok)
        last == list[Len(list)]
    IN  IF last.kind = "chunk" /\ ok /\ Len(done) < Len(chunkList)
        THEN Append(done, Send("chunk", chunkList[Len(done) + 1]))
        ELSE IF last.kind = "chunk" /\ ~ok
        THEN Append(done, Send("failure", BulkFailedText))
        ELSE done

InitSend ==
    /\ NormIdle
    /\ BulkIdle
    /\ FmtIdle
    /\ DedupIdle
    /\ BotIdle
    /\ UrlIdle
    /\ RetryIdle
    /\ GuardIdle
    /\ bulkLast = "none"
    /\ sLines \in ReportLineLists
    /\ sChunks = chunkLines(sLines, REPLY_CHUNK_MAX_LEN)
    /\ sends = FirstSend(sChunks)
    /\ StoreIdle

\* the pending ctx.reply settles
ReplySettles ==
    \E ok \in BOOLEAN :
        /\ sends # <<>>
        /\ sends[Len(sends)].state = "pending"
        /\ sends' = AfterSend(sends, sChunks, ok)
        /\ UNCHANGED <<sLines, sChunks>>
        /\ UNCHANGED sendOthers

NextSend == ReplySettles

SpecSend == InitSend /\ [][NextSend]_vars

----------------------------------------------------------------------------
(* persistAuthenticatedUsers and persistUserPrefs *)

MaxInFlight == 2

\* [...authenticatedUsers].sort((a, b) => a - b)
RECURSIVE SortedIds(_)
SortedIds(ids) ==
    IF ids = {} THEN <<>>
    ELSE LET least == CHOOSE m \in ids : \A n \in ids : m <= n
         IN  <<least>> \o SortedIds(ids \ {least})

\* the user_ids of the payload of persistAuthenticatedUsers
AuthPayload(authenticated) == SortedIds(authenticated)

\* the users of the payload of persistUserPrefs
PrefsPayload(prefs) ==
    [u \in Users |->
        IF prefs[u] = Undefined THEN Undefined
        ELSE Pref(Get(prefs[u], kShowInvalidBulk) # Bool(FALSE))]

\* a persist call that awaits fsp.mkdir
Waiting(file) == [file |-> file, pc |-> "mkdir", payload |-> <<>>]

\* the persist call once mkdir has resolved: the payload is built from
\* the memory of that moment and handed to fsp.writeFile
Snapshot(w, authenticated, prefs) ==
    [w EXCEPT !.pc = "write",
              !.payload = IF w.file = "auth" THEN AuthPayload(authenticated)
                          ELSE PrefsPayload(prefs)]

Without(list, i) == SubSeq(list, 1, i - 1) \o SubSeq(list, i + 1, Len(list))

InitStore ==
    /\ NormIdle
    /\ BulkIdle
    /\ FmtIdle
    /\ DedupIdle
    /\ BotIdle
    /\ UrlIdle
    /\ RetryIdle
    /\ GuardIdle
    /\ bulkLast = "none"
    /\ SendIdle
    /\ StoreIdle

\* authenticateUser(userId) up to its await of fsp.mkdir
AuthStarts(u) ==
    /\ Len(writers) < MaxInFlight
    /\ u \notin authenticatedUsers
    /\ authenticatedUsers' = authenticatedUsers \cup {u}
    /\ writers' = Append(writers, Waiting("auth"))
    /\ UNCHANGED <<userPrefs, authStore, prefsStore, storeErr>>
    /\ UNCHANGED storeOthers

\* setShowInvalidBulk(userId, showInvalidBulk) up to its await of fsp.mkdir
PrefStarts(u, show) ==
    /\ Len(writers) < MaxInFlight
    /\ userPrefs' = setShowInvalidBulk(userPrefs, u, show)
    /\ writers' = Append(writers, Waiting("prefs"))
    /\ UNCHANGED <<authenticatedUsers, authStore, prefsStore, storeErr>>
    /\ UNCHANGED storeOthers

\* fsp.mkdir of a persist call resolves; the call builds its payload
\* and starts fsp.writeFile
MkdirDone(i) ==
    /\ writers[i].pc = "mkdir"
    /\ writers' = [writers EXCEPT ![i] = Snapshot(@, authenticatedUsers, userPrefs)]
    /\ UNCHANGED <<authenticatedUsers, userPrefs, authStore, prefsStore, storeErr>>
    /\ UNCHANGED storeOthers

\* fsp.writeFile of a persist call resolves: the file holds its payload
WriteDone(i) ==
    /\ writers[i].pc = "write"
    /\ authStore' = IF writers[i].file = "auth" THEN writers[i].payload
                    ELSE authStore
    /\ prefsStore' = IF writers[i].file = "prefs" THEN writers[i].payload
                     ELSE prefsStore
    /\ writers' = Without(writers, i)
    /\ UNCHANGED <<authenticatedUsers, userPrefs, storeErr>>
    /\ UNCHANGED storeOthers

\* fsp.mkdir or fsp.writeFile of a persist call rejects
PersistFails(i) ==
    /\ writers' = Without(writers, i)
    /\ storeErr' = TRUE
    /\ UNCHANGED <<authenticatedUsers, userPrefs, authStore, prefsStore>>
    /\ UNCHANGED storeOthers

NextStore ==
    \/ \E u \in Users : AuthStarts(u)
    \/ \E u \in Users, show \in BOOLEAN : PrefStarts(u, show)
    \/ \E i \in 1..Len(writers) : MkdirDone(i)
    \/ \E i \in 1..Len(writers) : WriteDone(i)
    \/ \E i \in 1..Len(writers) : PersistFails(i)

SpecStore == InitStore /\ [][NextStore]_vars

----------------------------------------------------------------------------
(* Properties of the normalizer, checked under SpecNormalize *)

StatusEnum == {sValid, sInvalid, sUnknown}

Normalized1 == nResult # Undefined

\* the raw status of an item whose only property is a status-bearing field
RawStatus == nItem.v[1].v

StatusOnly == Normalized1 /\ nItem \in StatusOnlyItems

CandidateKeys == KeySet(LinkKeys) \cup KeySet(StatusKeys) \cup KeySet(ReasonKeys)

\* the item is no record, or a record without any candidate field
LacksEveryField ==
    \/ nItem.t \in {"undefined", "null", "number", "string", "boolean"}
    \/ nItem.t = "object" /\ \A i \in 1..Len(nItem.v) : nItem.v[i].k \notin CandidateKeys

Placeholder == [link |-> UnknownLink, status |-> sUnknown, reason |-> Null]

\* C7: for every input of any shape the status returned by normalizeResult is
\* one of valid, invalid, unknown; a status string spelled outside the two
\* vocabularies, and a numeric status, normalize to unknown.
C7_StatusAlwaysEnum ==
    Normalized1 =>
        /\ nResult.status \in StatusEnum
        /\ (nItem \in StatusOnlyItems /\ RawStatus.t = "string"
              /\ RawStatus.v \notin ValidSpellings \cup InvalidSpellings)
             => nResult.status = sUnknown
        /\ (nItem \in StatusOnlyItems /\ RawStatus.t = "number")
             => nResult.status = sUnknown

C7_Witness ==
    /\ StatusOnly
    /\ RawStatus = Str(<<"d","e","a","d","-","l","i","n","k">>)
    /\ nResult.status = sUnknown

\* C8: a status string that spells valid, ok, alive, active or true in any
\* letter case normalizes to valid; one that spells invalid, bad, dead or
\* false in any letter case normalizes to invalid.
C8_VocabularyAnyCase ==
    (StatusOnly /\ RawStatus.t = "string") =>
        /\ RawStatus.v \in ValidSpellings => nResult.status = sValid
        /\ RawStatus.v \in InvalidSpellings => nResult.status = sInvalid

C8_Witness ==
    /\ StatusOnly
    /\ RawStatus = Str(<<"A","c","T","i","v","E">>)
    /\ nResult.status = sValid

\* classification of a string by the two vocabularies
ClassOfString(str) ==
    IF str \in ValidSpellings THEN sValid
    ELSE IF str \in InvalidSpellings THEN sInvalid
    ELSE sUnknown

\* C9: a boolean or numeric status is classified exactly as its string form
\* would be, so true gives valid and false gives invalid.
C9_CoercedToStringFirst ==
    (StatusOnly /\ RawStatus.t \in {"boolean", "number"}) =>
        nResult.status = ClassOfString(String(RawStatus))

\* C10: for a record that lacks every candidate field and for an input that
\* is no record, normalizeResult returns the placeholder link, status unknown
\* and reason null.
C10_DegradedResult ==
    (Normalized1 /\ LacksEveryField) => nResult = Placeholder

C10_Witness ==
    /\ Normalized1
    /\ nItem = Obj(<<Entry(sFoo, Str(sValid))>>)
    /\ nResult = Placeholder

\* the link-bearing fields of the item, by position in LinkKeys, whose value
\* is present, non-null and non-empty
LinkFields ==
    { i \in 1..Len(LinkKeys) :
        /\ Get(nItem, LinkKeys[i]) # Undefined
        /\ Get(nItem, LinkKeys[i]) # Null
        /\ Get(nItem, LinkKeys[i]) # Str(<<>>) }

FirstLinkField == CHOOSE i \in LinkFields : \A j \in LinkFields : i <= j

\* C11: the link is taken from the first of link, url, input, username, value
\* whose value is present, non-null and non-empty; the placeholder is used
\* only when none of the five has such a value, and the returned link is
\* never the empty string.
C11_FirstLinkFieldWins ==
    Normalized1 =>
        /\ LinkFields # {}
             => /\ nResult.link = String(Get(nItem, LinkKeys[FirstLinkField]))
                /\ nResult.link # UnknownLink
        /\ nResult.link # <<>>

----------------------------------------------------------------------------
(* Properties of extractBulkRows, checked under SpecExtract *)

Extracted == pc = "extracted"

ListField(key) == Get(data, key)

NoRowsField ==
    /\ ~IsArray(data)
    /\ \A key \in RowsKeys : ~IsArray(ListField(key))

BucketLen(key) == IF IsArray(ListField(key)) THEN Len(ListField(key).v) ELSE 0

BucketCount == BucketLen(sValid) + BucketLen(sInvalid) + BucketLen(sUnknown)

\* the properties of the payload that rule 4 turns into a row
KeyedHits ==
    IF data.t # "object" THEN {}
    ELSE { i \in 1..Len(data.v) :
             /\ Includes(links, data.v[i].k)
             /\ data.v[i].v.t \in {"string", "object", "array"} }

\* C4: the shape rules are applied in a fixed priority and the first matching
\* rule wins: the payload itself when it is a list, else the list-valued
\* "results", else "data", else "items", else the buckets, else the object
\* keyed by requested link.
C4_ShapePriority ==
    Extracted =>
        /\ IsArray(data) => rows = data
        /\ (~IsArray(data) /\ IsArray(ListField(kResults)))
             => rows = ListField(kResults)
        /\ (~IsArray(data) /\ ~IsArray(ListField(kResults))
              /\ IsArray(ListField(kData)))
             => rows = ListField(kData)
        /\ (~IsArray(data) /\ ~IsArray(ListField(kResults))
              /\ ~IsArray(ListField(kData)) /\ IsArray(ListField(kItems)))
             => rows = ListField(kItems)
        /\ (NoRowsField /\ BucketCount > 0)
             => /\ IsArray(rows)
                /\ Len(rows.v) = BucketCount
                /\ \A i \in 1..Len(rows.v) :
                      Get(rows.v[i], kStatus).v \in StatusEnum
        /\ (NoRowsField /\ BucketCount = 0 /\ KeyedHits # {})
             => /\ IsArray(rows)
                /\ Len(rows.v) = Cardinality(KeyedHits)

\* both "data" and "results" hold rows, "data" inserted first
C4_Witness ==
    /\ Extracted
    /\ data.t = "object"
    /\ Len(data.v) = 2
    /\ data.v[1].k = kData /\ IsArray(data.v[1].v) /\ Len(data.v[1].v.v) > 0
    /\ data.v[2].k = kResults /\ IsArray(data.v[2].v) /\ Len(data.v[2].v.v) > 0
    /\ rows = data.v[2].v

\* some rule yields at least one row
YieldsRows ==
    \/ IsArray(data) /\ Len(data.v) > 0
    \/ \E key \in RowsKeys : IsArray(ListField(key)) /\ Len(ListField(key).v) > 0
    \/ BucketCount > 0
    \/ KeyedHits # {}

\* C5: a rule whose list is empty is not adopted and the lower rules are still
\* tried; extractBulkRows returns null exactly when no rule yields a row.
C5_StopOnFirstNonEmpty ==
    Extracted =>
        /\ rows = Null <=> ~YieldsRows
        /\ rows # Null => Len(rows.v) > 0

\* the elements of the bucket named key
BucketElems(key) == IF IsArray(ListField(key)) THEN ListField(key).v ELSE <<>>

TaggedRow(elem, status) == Obj(<<Entry(kLink, elem), Entry(kStatus, Str(status))>>)

\* the row expected at position i of the rows synthesized from the buckets
BucketRowAt(i) ==
    LET nv == BucketLen(sValid)
        ni == BucketLen(sInvalid)
    IN  IF i <= nv THEN TaggedRow(BucketElems(sValid)[i], sValid)
        ELSE IF i <= nv + ni THEN TaggedRow(BucketElems(sInvalid)[i - nv], sInvalid)
        ELSE TaggedRow(BucketElems(sUnknown)[i - nv - ni], sUnknown)

HasBucket == \E key \in {sValid, sInvalid, sUnknown} : IsArray(ListField(key))

\* C12: for a payload with a list-valued valid, invalid or unknown field and
\* no higher-priority match, the rows are every element of valid tagged
\* valid, then every element of invalid tagged invalid, then every element
\* of unknown tagged unknown, in the order of each bucket; the rule is
\* adopted only if this row list is non-empty.
C12_BucketRowsInOrder ==
    (Extracted /\ NoRowsField /\ HasBucket) =>
        /\ BucketCount > 0
             => /\ IsArray(rows)
                /\ Len(rows.v) = BucketCount
                /\ \A i \in 1..BucketCount : rows.v[i] = BucketRowAt(i)
        /\ BucketCount = 0
             => /\ rows # Arr(<<>>)
                /\ rows = Null \/ KeyedHits # {}

C12_Witness ==
    /\ Extracted
    /\ data = Obj(<<Entry(sValid, Arr(<<Str(Lb), Str(La)>>)),
                    Entry(sInvalid, Arr(<<Str(La)>>))>>)
    /\ rows = Arr(<<TaggedRow(Str(Lb), sValid), TaggedRow(Str(La), sValid),
                    TaggedRow(Str(La), sInvalid)>>)

\* the n-th property of the payload that rule 4 turns into a row
KeyedHitAt(n) ==
    CHOOSE i \in KeyedHits : Cardinality({ j \in KeyedHits : j < i }) = n - 1

\* C13: for a payload object keyed by link, every row of rule 4 comes from a
\* key in requestedLinks and carries that key as its link: a string value
\* gives {link: key, status: value}, an object value gives its own fields
\* together with link = key, also when it has a link field of its own; keys
\* that were not requested give no row, and the rule is adopted only if it
\* produced a row.
C13_KeyedRowsCarryKey ==
    (Extracted /\ NoRowsField /\ BucketCount = 0 /\ data.t = "object") =>
        IF KeyedHits = {} THEN rows = Null
        ELSE /\ IsArray(rows)
             /\ Len(rows.v) = Cardinality(KeyedHits)
             /\ \A n \in 1..Cardinality(KeyedHits) :
                   LET key   == data.v[KeyedHitAt(n)].k
                       value == data.v[KeyedHitAt(n)].v
                       row   == rows.v[n]
                   IN  /\ Includes(links, key)
                       /\ Get(row, kLink) = Str(key)
                       /\ value.t = "string"
                            => row = Obj(<<Entry(kLink, Str(key)),
                                           Entry(kStatus, value)>>)
                       /\ value.t = "object"
                            => \A j \in 1..Len(value.v) :
                                 value.v[j].k # kLink
                                   => Get(row, value.v[j].k) = value.v[j].v

----------------------------------------------------------------------------
(* Properties of buildBulkLines and chunkLines, checked under SpecReport *)

\* list.join("\n")
RECURSIVE JoinLines(_)
JoinLines(list) ==
    IF list = <<>> THEN <<>>
    ELSE IF Len(list) = 1 THEN list[1]
    ELSE list[1] \o <<NL>> \o JoinLines(Tail(list))

\* str.split("\n")
RECURSIVE SplitFrom(_, _, _)
SplitFrom(str, i, cur) ==
    IF i > Len(str) THEN <<cur>>
    ELSE IF str[i] = NL THEN <<cur>> \o SplitFrom(str, i + 1, <<>>)
    ELSE SplitFrom(str, i + 1, Append(cur, str[i]))

SplitLines(str) == SplitFrom(str, 1, <<>>)

\* a report was built and chunked
ReportChunked == fpc = "builtChunked"

\* some list of lines was chunked
Chunked == fpc \in {"builtChunked", "chunked"}

\* C14: for every result list and every maxLen, the lines built with
\* showInvalid true, chunked and rejoined with line breaks, are exactly the
\* lines that were built, the blank line after the header included.
C14_RejoinedChunksAreTheLines ==
    (ReportChunked /\ ShowInvalid(options)) =>
        SplitLines(JoinLines(chunks)) = lines

\* the lines of the chunks, chunk after chunk
RECURSIVE ChunkedLines(_)
ChunkedLines(list) ==
    IF list = <<>> THEN <<>>
    ELSE SplitLines(Head(list)) \o ChunkedLines(Tail(list))

NonBlank(list) == SelectSeq(list, LAMBDA l : l # <<>>)

C16_ChunkWithinMaxLen ==
    Chunked =>
        /\ \A k \in 1..Len(chunks) :
              \/ Len(chunks[k]) <= maxLen
              \/ /\ \E i \in 1..Len(lines) : lines[i] = chunks[k]
                 /\ \A j \in 1..Len(chunks[k]) : chunks[k][j] # NL
        /\ Len(JoinLines(lines)) <= maxLen => Len(chunks) <= 1

C16_Witness ==
    /\ fpc = "chunked"
    /\ lines = << <<"a">>, <<"a">>, <<"1","2","3","4","5">> >>
    /\ maxLen = 3
    /\ chunks = << <<"a", NL, "a">>, <<"1","2","3","4","5">> >>

\* buildBulkLines has returned
Built == fpc \in {"built", "builtChunked"}

\* the results of one status, in the order of the input
Group(status) == SelectSeq(results, LAMBDA r : r.status = status)

Glyph(status) ==
    CASE status = sValid   -> <<"[","V","]">>
      [] status = sInvalid -> <<"[","X","]">>
      [] status = sUnknown -> <<"[","?","]">>

Body == SubSeq(lines, 6, Len(lines))

\* C17: the body lists the valid results, then the invalid ones (when they
\* are shown), then the unknown ones, each group in the order of the input;
\* every body line is the glyph of the status, a blank and the link.
C17_BodyOrder ==
    Built =>
        LET shown == Group(sValid)
                       \o (IF options = Options(FALSE) THEN <<>>
                           ELSE Group(sInvalid))
                       \o Group(sUnknown)
        IN  /\ Len(Body) = Len(shown)
            /\ \A i \in 1..Len(shown) :
                  Body[i] = Glyph(shown[i].status) \o <<" ">> \o shown[i].link

C17_Witness ==
    /\ Built
    /\ results = << Res(Lb, sUnknown), Res(Lb, sValid), Res(La, sValid) >>
    /\ options = Undefined
    /\ Body = << <<"[","V","]">> \o <<" ">> \o Lb, <<"[","V","]">> \o <<" ">> \o La,
                 <<"[","?","]">> \o <<" ">> \o Lb >>

\* number of results of one status
Count(status) ==
    Cardinality({ i \in 1..Len(results) : results[i].status = status })

\* C18: the lines start with five header lines: the total, the number of
\* valid results, the number of invalid results (followed by "(hidden)"
\* exactly when showInvalid is false), the number of unknown results, and a
\* blank line; the numbers count the whole result list whatever showInvalid.
C18_Header ==
    Built =>
        /\ Len(lines) >= 5
        /\ lines[1] = sTotal \o NumToStr(Len(results))
        /\ lines[2] = sValidCount \o NumToStr(Count(sValid))
        /\ lines[3] = sInvalidCount \o NumToStr(Count(sInvalid))
                        \o (IF options = Options(FALSE) THEN sHidden ELSE <<>>)
        /\ lines[4] = sUnknownCount \o NumToStr(Count(sUnknown))
        /\ lines[5] = <<>>

C18_Witness ==
    /\ Built
    /\ results = << Res(La, sInvalid), Res(La, sValid), Res(La, sInvalid) >>
    /\ options = Options(FALSE)
    /\ SubSeq(lines, 1, 5) = << <<"D","o","n","e","."," ","T","o","t","a","l",":"," ","3">>, <<"V","a","l","i","d",":"," ","1">>, <<"I","n","v","a","l","i","d",":"," ","2"," ","(","h","i","d","d","e","n",")">>, <<"U","n","k","n","o","w","n",":"," ","0">>, <<>> >>

----------------------------------------------------------------------------
(* Properties of the bulk report of the bot, checked under SpecPrefs *)

\* the reply sent last is a bulk report
Reported == reply = "report"

\* the body of the report of the same results when invalid links are shown
BodyShown ==
    LET shown == buildBulkLines(results, Options(TRUE))
    IN  SubSeq(shown, 6, Len(shown))

IsInvalidLine(line) == Len(line) >= 3 /\ SubSeq(line, 1, 3) = <<"[","X","]">>

\* the word given to the /invalid command handled last
InvalidWord == ToLowerCase(Trim(update.input))

C19_Report ==
    Reported =>
        /\ ShowInvalid(options) <=> userPrefs[update.from] # Pref(FALSE)
        /\ ~ShowInvalid(options) =>
             /\ \A j \in 1..Len(Body) : ~IsInvalidLine(Body[j])
             /\ Body = SelectSeq(BodyShown, LAMBDA l : ~IsInvalidLine(l))
             /\ \A i \in 1..Len(results) :
                   results[i].status # sInvalid
                     => \E j \in 1..Len(Body) :
                          Body[j] = Glyph(results[i].status) \o <<" ">>
                                      \o results[i].link
             /\ lines[3] = sInvalidCount \o NumToStr(Count(sInvalid)) \o sHidden

C19_PrefStep ==
    \A u \in Users :
        /\ userPrefs'[u] # userPrefs[u]
             => /\ update'.from = u
                /\ update'.kind = "invalid"
                /\ userPrefs'[u] = Pref(FALSE) <=> InvalidWord' \in OffWords
        /\ (update'.from = u /\ update'.kind = "invalid"
               /\ reply' # "refused" /\ InvalidWord' \in OffWords)
             => userPrefs'[u] = Pref(FALSE)

\* C19: when showInvalid is false no body line belongs to an invalid result,
\* the valid and unknown results keep their lines in the order they have
\* with showInvalid true, and the invalid results are still counted in the
\* header; a bulk report hides the invalid links exactly when its user's
\* saved preference is off, which only that user's /invalid off sets, and
\* shows them by default.
C19_InvalidOffHidesInvalid == []C19_Report /\ [][C19_PrefStep]_vars

C19_Witness ==
    /\ Reported
    /\ update.from = 1
    /\ userPrefs = [u \in Users |-> IF u = 1 THEN Pref(FALSE) ELSE Undefined]
    /\ results = << Res(Lc, sUnknown), Res(Lb, sInvalid), Res(La, sValid) >>
    /\ Body = << <<"[","V","]">> \o <<" ">> \o La, <<"[","?","]">> \o <<" ">> \o Lc >>

----------------------------------------------------------------------------
(* Properties of deduplicateLinks, checked under SpecDedup *)

Deduplicated == dUnique # Undefined

\* position of the first occurrence of x in the input
FirstAt(x) ==
    CHOOSE i \in 1..Len(dLinks) :
        dLinks[i] = x /\ \A j \in 1..(i - 1) : dLinks[j] # x

\* C20: deduplicateLinks returns the distinct elements of its input in the
\* order of their first occurrence, compared by exact, case-sensitive
\* equality: no element is repeated, every input element is returned, and
\* the first occurrences keep their relative order.
C20_DistinctInFirstOrder ==
    Deduplicated =>
        LET unique == dUnique.v IN
        /\ \A i, j \in 1..Len(unique) : i # j => unique[i] # unique[j]
        /\ { unique[i] : i \in 1..Len(unique) }
             = { dLinks[i] : i \in 1..Len(dLinks) }
        /\ \A i, j \in 1..Len(unique) :
              i < j => FirstAt(unique[i]) < FirstAt(unique[j])

C20_Witness ==
    /\ Deduplicated
    /\ dLinks = << <<"a">>, <<"b">>, <<"a">>, <<"A">>, <<"b">> >>
    /\ dUnique.v = << <<"a">>, <<"b">>, <<"A">> >>

----------------------------------------------------------------------------
(* Properties of extractUrls, checked under SpecUrls *)

UrlsExtracted == eUrls # Undefined

Prefixes == {pHttp, pHttps, pTme}

\* positions of the text where http://, https:// resp. t.me/ starts
HttpStarts ==
    { i \in 1..Len(eText) : StartsWith(eText, i, pHttp) \/ StartsWith(eText, i, pHttps) }

TmeStarts == { i \in 1..Len(eText) : StartsWith(eText, i, pTme) }

\* the substring from i up to the next white space or comma
UpToSeparator(i) == SubSeq(eText, i, RunEnd(eText, i))

\* the elements of a set of positions in increasing order
RECURSIVE Ascending(_)
Ascending(S) ==
    IF S = {} THEN <<>>
    ELSE LET m == CHOOSE i \in S : \A j \in S : i <= j
         IN  <<m>> \o Ascending(S \ {m})

SubstringsAt(S) == [k \in 1..Cardinality(S) |-> UpToSeparator(Ascending(S)[k])]

\* C21 as stated: the list is, from left to right, every substring that
\* starts with http://, https:// or t.me/ and runs up to the next white space
\* or comma, except a t.me/ inside an http(s) match.
C21_EveryPrefixedSubstring ==
    UrlsExtracted =>
        eUrls.v = SubstringsAt(
            HttpStarts
            \cup { i \in TmeStarts :
                     \A h \in HttpStarts : ~(h < i /\ i <= RunEnd(eText, h)) })

\* positions where a prefix is followed by one more character of the run
MatchStarts ==
    { i \in 1..Len(eText) :
        \E prefix \in Prefixes :
            /\ StartsWith(eText, i, prefix)
            /\ i + Len(prefix) <= Len(eText)
            /\ IsLinkChar(eText[i + Len(prefix)]) }

\* those that no earlier one reaches without crossing a separator
LeftmostStarts ==
    { i \in MatchStarts :
        \A h \in MatchStarts : h < i => RunEnd(eText, h) < i }

\* C21: the list is, from left to right, for every run of characters other
\* than white space and comma that holds http://, https:// or t.me/ followed
\* by at least one more character, the part of the run from the first such
\* prefix to the end of the run; a prefix inside an earlier match gives no
\* second match, a prefix with nothing behind it gives none, no match holds
\* white space or a comma, and a text without a match gives the empty list.
C21_LeftmostMatches ==
    UrlsExtracted =>
        /\ eUrls.v = SubstringsAt(LeftmostStarts)
        /\ \A k \in 1..Len(eUrls.v) :
              \A j \in 1..Len(eUrls.v[k]) : IsLinkChar(eUrls.v[k][j])
        /\ MatchStarts = {} => eUrls.v = <<>>

C21_Witness ==
    /\ UrlsExtracted
    /\ eText = La \o <<" ">> \o pHttps \o La
    /\ eUrls.v = << La, pHttps \o La >>

----------------------------------------------------------------------------
(* Properties of withRetry, checked under SpecRetry *)

\* the failures the documentation calls retryable
RetryableFailure(err) ==
    \/ err.status = Num(429)
    \/ err.status.t = "number" /\ err.status.v >= 500
    \/ err.code \in {"ECONNRESET", "ECONNABORTED", "ETIMEDOUT"}

LastFailure == wErrs[Len(wErrs)]

C22_Counts ==
    /\ wCalls <= RETRY_ATTEMPTS
    /\ Len(wSlept) = IF wPc = "sleep" THEN wCalls ELSE wCalls - 1
    /\ \A k \in 1..Len(wSlept) :
          /\ wSlept[k] = 400 * 2 ^ (k - 1)
          /\ RetryableFailure(wErrs[k])
    /\ wPc = "call" => Len(wErrs) = wCalls - 1
    /\ wPc = "sleep" => wCalls < RETRY_ATTEMPTS /\ RetryableFailure(LastFailure)
    /\ wPc = "returned" => wResult \in RetryValues /\ Len(wErrs) = wCalls - 1
    /\ wPc = "thrown" =>
          /\ Len(wErrs) = wCalls
          /\ wResult = LastFailure
          /\ ~RetryableFailure(LastFailure) \/ wCalls = RETRY_ATTEMPTS

C22_Step ==
    /\ wCalls' # wCalls =>
          /\ wCalls' = wCalls + 1
          /\ wPc = "sleep"
          /\ wSlept[Len(wSlept)] = 400 * 2 ^ (wCalls - 1)
    /\ wPc = "call" /\ Len(wErrs') > Len(wErrs) /\ ~RetryableFailure(wErrs'[Len(wErrs')])
          => wPc' = "thrown" /\ wCalls' = wCalls
    /\ wPc \in {"returned", "thrown"} => UNCHANGED retryVars

\* C22: the action is invoked again only after a retryable failure and after
\* a pause of RETRY_BASE_DELAY_MS * 2^(attempt-1), never more than
\* RETRY_ATTEMPTS times; a non-retryable failure is thrown after its single
\* attempt, a success is returned at once, and when every attempt fails the
\* last error is thrown
C22_RetryOnlyRetryable == []C22_Counts /\ [][C22_Step]_vars

\* two retryable failures, pauses of 400 and 800 ms, then the third failure thrown
C22_Witness ==
    /\ wPc = "thrown"
    /\ wCalls = RETRY_ATTEMPTS
    /\ wSlept = <<400, 800>>
    /\ wErrs[1].status = Num(429)
    /\ wErrs[2].code = "ECONNRESET"
    /\ wResult = wErrs[3]
    /\ wResult.status = Num(503)

----------------------------------------------------------------------------
(* Properties of the rate limiter, checked under SpecLimit *)

\* how many requests of a user the limiter accepted from time lo to time hi
AcceptedWithin(u, lo, hi) ==
    Cardinality({ k \in 1..Len(accepted[u]) :
                    accepted[u][k] >= lo /\ accepted[u][k] <= hi })

C23_Window ==
    \A u \in Users, lo \in 0..MaxNow :
        AcceptedWithin(u, lo, lo + RATE_LIMIT_WINDOW_MS) <= RATE_LIMIT_COUNT

\* a step that handles a message of user msg'.from at time now
C23_Step ==
    now' = now =>
        LET u == msg'.from IN
        /\ \A v \in Users \ {u} :
              accepted'[v] = accepted[v] /\ rateLimiter'[v] = rateLimiter[v]
        /\ IF AcceptedWithin(u, now - RATE_LIMIT_WINDOW_MS, now) >= RATE_LIMIT_COUNT
           THEN /\ replies' = <<"Rate limit hit.">>
                /\ calls' = <<>>
                /\ accepted' = accepted
           ELSE /\ replies' # <<"Rate limit hit.">>
                /\ accepted'[u] = Append(accepted[u], now)

\* C23: of the requests of one user that reach the limiter at most
\* RATE_LIMIT_COUNT are accepted inside any window of RATE_LIMIT_WINDOW_MS;
\* a request over the limit is answered "Rate limit hit." and makes no
\* upstream call; the requests of one user never change whether a request of
\* another user is accepted
C23_RateLimitPerUser == []C23_Window /\ [][C23_Step]_vars

\* user 1 is refused at time 2 after two requests were accepted at time 2,
\* two more having been accepted at time 0, while user 2 was accepted meanwhile
C23_Witness ==
    /\ msg.from = 1
    /\ replies = <<"Rate limit hit.">>
    /\ calls = <<>>
    /\ accepted[1] = <<0, 0, 2, 2>>
    /\ accepted[2] = <<2>>
    /\ now = 2

----------------------------------------------------------------------------
(* Properties of the bot's handlers, checked under SpecBot *)

PasswordRequired == <<"Password required.">>

\* the step handles a message of a user who is not authenticated, other than
\* /start, /help and /auth, while a password is configured
UnauthenticatedMessage ==
    /\ vars' # vars
    /\ AUTH_PASSWORD # <<>>
    /\ msg'.from \notin authenticatedUsers
    /\ CommandOf(msg'.text) \notin {wStart, wHelp, wAuth}

\* the step handles /auth with the configured password
PasswordMessage ==
    /\ vars' # vars
    /\ AUTH_PASSWORD # <<>>
    /\ CommandOf(msg'.text) = wAuth
    /\ StripCommand(msg'.text, wAuth) = AUTH_PASSWORD

Refused == replies' = PasswordRequired /\ calls' = <<>> /\ userPrefs' = userPrefs

\* C24 as stated: every such message is answered "Password required." with no
\* upstream call and no preference change, and the message that follows an
\* /auth with the password is not refused for lack of authentication
C24_Step ==
    /\ UnauthenticatedMessage => Refused
    /\ (msg.from # 0 /\ CommandOf(msg.text) = wAuth
           /\ StripCommand(msg.text, wAuth) = AUTH_PASSWORD /\ AUTH_PASSWORD # <<>>
           /\ vars' # vars /\ msg'.from = msg.from)
        => replies' # PasswordRequired

C24_PasswordRequired == [][C24_Step]_vars

InAllowedChat == isAllowedChat(ALLOWED_CHAT_IDS, msg'.chat)

C24_AllowedStep ==
    /\ UnauthenticatedMessage /\ InAllowedChat => Refused
    /\ UnauthenticatedMessage => calls' = <<>> /\ userPrefs' = userPrefs
    /\ PasswordMessage /\ InAllowedChat => msg'.from \in authenticatedUsers'
    /\ authenticatedUsers \subseteq authenticatedUsers'
    /\ (vars' # vars /\ msg'.from \in authenticatedUsers)
        => replies' # PasswordRequired

\* C24, amended: with a password configured every message of an
\* unauthenticated user other than /start, /help and /auth makes no upstream
\* call and no preference change, and is answered "Password required." when
\* it comes from an allowed chat; once the user has sent /auth with the
\* password from an allowed chat none of their messages is refused for lack
\* of authentication
C24_PasswordRequiredInAllowedChat == [][C24_AllowedStep]_vars

\* user 2 is refused while user 1, who authenticated, has changed a preference
C24_Witness ==
    /\ AUTH_PASSWORD = Secret
    /\ msg = [from |-> 2, chat |-> 10, text |-> La \o Sp \o Lb]
    /\ 2 \notin authenticatedUsers
    /\ replies = PasswordRequired
    /\ calls = <<>>
    /\ authOk[1] = 1
    /\ userPrefs[1] = Pref(FALSE)
    /\ userPrefs[2] = Undefined

\* the step handles a text that no command handler takes
TextMessage ==
    /\ vars' # vars
    /\ CommandOf(msg'.text) \notin {wStart, wHelp, wBulk, wAuth, wInvalid, wStats, wCheck}

TooLong == Len(msg'.text) > MAX_MESSAGE_CHARS

\* the number of distinct links of the text after de-duplication
DistinctLinks == Len(Parsed[msg'.text].found)

C25_Step ==
    TextMessage =>
        /\ TooLong => replies' = <<"Message too large.">> /\ calls' = <<>>
        /\ ~TooLong /\ DistinctLinks > MAX_LINKS_PER_BULK
              => replies' = <<"Too many links.">> /\ calls' = <<>>
        /\ ~TooLong /\ DistinctLinks = 1 => calls' = <<"single">>
        /\ ~TooLong /\ DistinctLinks >= 2 /\ DistinctLinks <= MAX_LINKS_PER_BULK
              => calls' = <<"bulk">>

PassesChecks ==
    /\ isAllowedChat(ALLOWED_CHAT_IDS, msg'.chat)
    /\ AUTH_PASSWORD = <<>> \/ msg'.from \in authenticatedUsers
    /\ Len(InWindow(rateLimiter[msg'.from], now)) < RATE_LIMIT_COUNT

\* the trimmed text does not start with a slash
Plain == Head(Trim(msg'.text)) # "/"

C25_CheckedStep ==
    TextMessage =>
        /\ TooLong \/ DistinctLinks > MAX_LINKS_PER_BULK => calls' = <<>>
        /\ PassesChecks /\ TooLong => replies' = <<"Message too large.">>
        /\ PassesChecks /\ ~TooLong /\ Plain /\ DistinctLinks > MAX_LINKS_PER_BULK
              => replies' = <<"Too many links.">>
        /\ PassesChecks /\ ~TooLong /\ Plain /\ DistinctLinks = 1
              => calls' = <<"single">>
        /\ PassesChecks /\ ~TooLong /\ Plain /\ DistinctLinks >= 2
              /\ DistinctLinks <= MAX_LINKS_PER_BULK
              => calls' = <<"bulk">>
        /\ ~PassesChecks \/ ~Plain => calls' = <<>>

----------------------------------------------------------------------------
(* Properties of the authenticated set, checked under SpecBot *)

\* the message handled by the step is an /auth command
AuthMessage == Parsed[msg'.text].command = wAuth

\* the message handled by the step carries the configured password
RightPassword ==
    /\ Parsed[msg'.text].supplied # <<>>
    /\ Parsed[msg'.text].supplied = AUTH_PASSWORD

\* no user was answered "Authentication successful." twice, and one who
\* was is in the set
C29_Once ==
    \A u \in Users :
        /\ authOk[u] <= 1
        /\ authOk[u] = 1 => u \in authenticatedUsers

C29_Step ==
    /\ authenticatedUsers \subseteq authenticatedUsers'
    /\ \A u \in authenticatedUsers' \ authenticatedUsers :
           /\ msg'.from = u
           /\ AuthMessage
           /\ isAllowedChat(ALLOWED_CHAT_IDS, msg'.chat)
           /\ RightPassword
    /\ (AuthMessage /\ ~RightPassword)
           => authenticatedUsers' = authenticatedUsers
    /\ replies' = <<"Authenticated for this run, but failed to persist auth store.">>
           => msg'.from \in authenticatedUsers'
    /\ replies' = <<"Authentication successful.">>
           => /\ msg'.from \notin authenticatedUsers
              /\ msg'.from \in authenticatedUsers'
    /\ ( /\ AuthMessage
         /\ RightPassword
         /\ isAllowedChat(ALLOWED_CHAT_IDS, msg'.chat)
         /\ msg'.from \in authenticatedUsers )
           => replies' = <<"Already authenticated.">>

\* C29: a user id enters the authenticated set only through an /auth
\* message from an allowed chat whose supplied password is AUTH_PASSWORD;
\* a wrong or empty password never adds it; an id in the set stays there,
\* also when the store could not be written; at most one /auth of a user
\* is answered "Authentication successful.", later ones "Already
\* authenticated."
C29_AuthenticatedSet == []C29_Once /\ [][C29_Step]_vars

\* a user who was answered "Authentication successful." sends the
\* password again and is answered "Already authenticated."
C29_Witness ==
    /\ authOk[1] = 1
    /\ msg.from = 1
    /\ Parsed[msg.text].supplied = AUTH_PASSWORD
    /\ replies = <<"Already authenticated.">>

----------------------------------------------------------------------------
(* Properties of the store files, checked under SpecStore *)

\* every persist call has settled and none of them failed
AllWritten == writers = <<>> /\ ~storeErr

\* C30: when /auth and /invalid handlers run interleaved, then once all
\* pending writes have completed the store files hold the in-memory state:
\* no interleaving leaves a file with an older snapshot that misses an
\* authenticated user or a preference that memory has
C30_StoreMatchesMemory ==
    AllWritten =>
        /\ authStore = AuthPayload(authenticatedUsers)
        /\ prefsStore = PrefsPayload(userPrefs)

----------------------------------------------------------------------------
(* Properties of replyInChunks, checked under SpecSend *)

ChunkSends == SelectSeq(sends, LAMBDA e : e.kind = "chunk")

FailureSends == SelectSeq(sends, LAMBDA e : e.kind = "failure")

\* the chunks are started in the order of the chunk list, each one once
InChunkOrder ==
    /\ Len(ChunkSends) <= Len(sChunks)
    /\ \A k \in 1..Len(ChunkSends) :
           /\ sends[k].kind = "chunk"
           /\ sends[k].text = sChunks[k]

\* a reply is started only when every earlier one has settled, and a chunk
\* only when every earlier chunk was sent
OneAtATime ==
    \A k \in 1..Len(sends) :
        /\ k < Len(sends) => sends[k].state # "pending"
        /\ (k < Len(sends) /\ sends[k + 1].kind = "chunk")
               => sends[k].state = "ok"

\* after a chunk that could not be sent the one reply "Bulk check failed."
\* is started and nothing else
StopsAtFailure ==
    \A k \in 1..Len(sends) :
        (sends[k].kind = "chunk" /\ sends[k].state = "failed")
            => /\ Len(sends) = k + 1
               /\ sends[k + 1].kind = "failure"
               /\ sends[k + 1].text = BulkFailedText

\* "Bulk check failed." is only sent after a chunk that could not be sent
FailureOnlyAfterFailed ==
    /\ Len(FailureSends) <= 1
    /\ \A k \in 1..Len(sends) :
           sends[k].kind = "failure"
               => k > 1 /\ sends[k - 1].kind = "chunk"
                        /\ sends[k - 1].state = "failed"

\* C28: replyInChunks sends the chunks of chunkLines(lines,
\* REPLY_CHUNK_MAX_LEN) in order, each only after the send of the previous
\* one has completed; when the send of a chunk fails no later chunk is sent
\* and the bulk handler then attempts the single reply "Bulk check failed."
C28_ChunksInOrder ==
    /\ sChunks = chunkLines(sLines, REPLY_CHUNK_MAX_LEN)
    /\ InChunkOrder
    /\ OneAtATime
    /\ StopsAtFailure
    /\ FailureOnlyAfterFailed

\* two chunks were sent, the third could not be, and "Bulk check failed."
\* was sent instead
C28_Witness ==
    /\ Len(sChunks) = 3
    /\ Len(sends) = 3
    /\ sends[1].state = "ok"
    /\ sends[2].state = "failed"
    /\ sends[2].text = sChunks[2]
    /\ sends[3].kind = "failure"
    /\ sends[3].state = "ok"

----------------------------------------------------------------------------
(* Properties of checkBulk, checked under Spec *)

\* the last bulk response yielded at least one row
RowsRecovered == IsArray(rows) /\ Len(rows.v) > 0

\* C1: whenever a bulk response yields at least one row, checkBulk returns on
\* that response a list of exactly links.length entries, whether the payload
\* held fewer, as many or more rows.
C1_OutputLength ==
    RowsRecovered => (pc = "done" /\ Len(out) = Len(links))

C1_Witness ==
    /\ pc = "done"
    /\ RowsRecovered
    /\ Len(rows.v) > Len(links)
    /\ Len(out) = Len(links)

\* C2: whenever rows were recovered, the output has one entry per requested
\* link in request order, output[i].link = requestedLinks[i], also when the
\* number of rows equals the number of requested links.
C2_RequestOrder ==
    RowsRecovered =>
        /\ pc = "done"
        /\ Len(out) = Len(links)
        /\ \A i \in 1..Len(links) : out[i].link = links[i]

MissingEntry(link) ==
    [link |-> link, status |-> sUnknown, reason |-> Str(MissingReason)]

\* C6: when the number of rows is positive and differs from the number of
\* requested links, output[i] is a normalized row whose link equals links[i]
\* character for character if there is one, else the "Missing in bulk
\* response" entry; no row with another link appears.
C6_RekeyByExactLink ==
    (RowsRecovered /\ Len(rows.v) # Len(links)) =>
        /\ pc = "done"
        /\ Len(out) = Len(links)
        /\ \A i \in 1..Len(links) :
              LET hits == { j \in 1..Len(rows.v) :
                              normalizeResult(rows.v[j]).link = links[i] }
              IN  /\ out[i].link = links[i]
                  /\ hits # {} => \E j \in hits : out[i] = normalizeResult(rows.v[j])
                  /\ hits = {} => out[i] = MissingEntry(links[i])

\* the only row names the first requested link with a trailing slash
C6_Witness ==
    /\ pc = "done"
    /\ RowsRecovered
    /\ Len(rows.v) = 1
    /\ links[1] = La
    /\ Get(rows.v[1], kLink) = Str(La \o <<"/">>)
    /\ out[1] = MissingEntry(La)

ViaFallback == pc = "done" /\ settled # <<>>

\* C3: in the fallback one checkSingle is issued per requested link; the
\* output has one result per link in request order with the requested link;
\* a link whose call failed has status unknown and the failure message as
\* reason ("Check failed" without a message); no failure rejects the batch.
C3_FallbackPerLink ==
    /\ pc # "rejected"
    /\ pc = "fallback" =>
          /\ Len(settled) = Len(links)
          /\ \A i \in 1..Len(links) : singleCalls[i] = 1
    /\ ViaFallback =>
          /\ Len(out) = Len(links)
          /\ \A i \in 1..Len(links) :
                /\ singleCalls[i] = 1
                /\ out[i].link = links[i]
                /\ out[i].status \in StatusEnum
                /\ settled[i].status = "fulfilled" => out[i] = settled[i].value
                /\ settled[i].status = "rejected" =>
                      /\ out[i].status = sUnknown
                      /\ out[i].reason =
                            IF settled[i].reason.message \in {Undefined, Str(<<>>)}
                            THEN Str(CheckFailed)
                            ELSE settled[i].reason.message

\* one link failed without a message, another was answered valid
C3_Witness ==
    /\ ViaFallback
    /\ \E i, j \in 1..Len(links) :
          /\ settled[i].status = "rejected"
          /\ out[i].reason = Str(CheckFailed)
          /\ settled[j].status = "fulfilled"
          /\ out[j].status = sValid

\* C26: whatever the bulk attempts and the single-link calls are answered
\* with, checkBulk never rejects: it is waiting for a request or a timer that
\* is still to settle, or it has resolved with exactly links.length results,
\* each with status valid, invalid or unknown
C26_NeverRejects ==
    /\ pc \in {"bulk", "bulkSleep", "fallback", "done"}
    /\ pc = "fallback" =>
          \A i \in 1..Len(links) : singlePc[i] \in {"call", "sleep", "settled"}
    /\ pc = "done" =>
          /\ Len(out) = Len(links)
          /\ \A i \in 1..Len(out) : out[i].status \in StatusEnum

\* every bulk attempt and every single-link call failed
C26_Witness ==
    /\ pc = "done"
    /\ attempt = NumAttempts
    /\ rows = Undefined
    /\ Len(settled) = Len(links)
    /\ \A i \in 1..Len(links) :
          settled[i].status = "rejected" /\ out[i].status = sUnknown

\* the body of the bulk POST of the current attempt
Posting == attempts(links)[attempt]

\* the encoding of a body: the raw list, or the name of its only field
Encoding(body) == IF IsArray(body) THEN <<"r","a","w">> ELSE body.v[1].k

EncodingOrder == <<kLinks, <<"r","a","w">>, kData, kUrls>>

C27_Order ==
    /\ pc \in {"bulk", "bulkSleep"} =>
          /\ attempt \in 1..4
          /\ Encoding(Posting) = EncodingOrder[attempt]
          /\ singleCalls = <<>>
    /\ singleCalls # <<>> => attempt = 4 /\ ~RowsRecovered
    /\ RowsRecovered => pc = "done" /\ singleCalls = <<>>

\* withRetry has given up on the POST, or the POST was answered
GaveUp == bulkLast' \in {"answered", "fatal"} \/ tryNo = RETRY_ATTEMPTS

C27_Step ==
    /\ attempt' # attempt =>
          /\ attempt' = attempt + 1
          /\ pc = "bulk" /\ pc' = "bulk"
          /\ ~RowsRecovered'
          /\ GaveUp
    /\ pc # "fallback" /\ pc' = "fallback" =>
          /\ attempt = 4
          /\ pc = "bulk"
          /\ ~RowsRecovered'
          /\ GaveUp
    /\ pc = "bulk" /\ bulkLast' = "retryable" /\ tryNo < RETRY_ATTEMPTS =>
          pc' = "bulkSleep" /\ attempt' = attempt
    /\ pc = "done" => UNCHANGED vars

\* C27: the bulk encodings are posted in the order {links}, raw list, {data},
\* {urls}; the next one is posted only after the previous one failed for good
\* or was answered without a row; once a row is recovered no further upstream
\* call is made; the single-link calls start only after the fourth encoding
\* has ended without a row
C27_EncodingsInOrder == []C27_Order /\ [][C27_Step]_vars

\* {links} and the raw list ended without a row, {data} was answered with rows
C27_Witness ==
    /\ pc = "done"
    /\ attempt = 3
    /\ Encoding(Posting) = kData
    /\ RowsRecovered
    /\ bulkLast = "answered"
    /\ singleCalls = <<>>

====
